---- MODULE Spec2Model ----
(***************************************************************************)
(* Portfolio analysis agent: the two-call tool orchestrator                *)
(* (agent.service.ts, AgentService.chat) and the WebSocket bridge to the   *)
(* agent process (agent-websocket gateway, setupAgentWebSocket).           *)
(*                                                                         *)
(* Confidence values are kept in tenths (0.1 is 1, 1.0 is 10).  An answer  *)
(* is the sequence of text pieces that the code joins with a newline; the  *)
(* empty sequence is the empty string.                                     *)
(***************************************************************************)
EXTENDS Integers, Sequences, FiniteSets, TLC

\* ------------------------------------------------------------------ bounds
\* content blocks in one LLM response
MaxBlocks == 2
\* chat messages one WebSocket handles
MaxTurns == 2
\* messages that are neither chat nor cancel one WebSocket handles
MaxOthers == 1
\* chunks the upstream bodies of one socket deliver in all
MaxChunks == 2
\* SSE frames in one chunk
MaxFrames == 2
\* HTTP requests and upgrade requests the server handles
MaxRequests == 2
\* tools one turn counts as succeeded, and as failed
MaxCount == 2
\* positions of a portfolio whose positions differ
MaxHoldings == 2
\* positions of a portfolio of equal positions
MaxEqualHoldings == 216
\* changes of one simulateAllocationChange input
MaxChanges == 2
\* points of the chart getPerformance resolves with
MaxChartLength == 41
\* most calls of chat() in progress at a time on one AgentService
MaxChats == 2
\* most messages the user of the chat page sends, interjects included
MaxSends == 2

\* ------------------------------------------------------------- vocabulary
SnapshotName == "getPortfolioSnapshot"
PerformanceName == "getPerformance"
SimulateName == "simulateAllocationChange"
MarketPricesName == "getMarketPrices"

\* names the LLM may put in a tool_use block: the snapshot tool, whose result
\* the orchestrator reads; getPerformance, which stands for the enabled tools
\* whose result it only passes on (simulateAllocationChange is handled
\* alike); the tool a setting enables; a name registered nowhere
RequestNames ==
  {SnapshotName, PerformanceName, MarketPricesName, "nonExistentTool"}

\* text pieces of an LLM answer: neutral text, text matching an advice
\* pattern, text holding a cost-basis disclosure phrase
Texts == {"plain", "you should buy", "cost basis"}

TextBlocks == [type : {"text"}, text : Texts, name : {""}]
ToolUseBlockShapes == [type : {"tool_use"}, text : {""}, name : RequestNames]
Blocks == TextBlocks \cup ToolUseBlockShapes

\* every content list an LLM response may carry
Contents == UNION {[1..n -> Blocks] : n \in 0..MaxBlocks}

\* messages raised by a tool executor or by the LLM provider
ErrMsgs == {"Database connection failed"}
LLMErrMsgs == {"API rate limit exceeded"}

NoExecutor == [tool |-> "undefined", instance |-> "undefined"]
NoResult == [kind |-> "none"]
NoOutcome == [kind |-> "pending"]

\* ------------------------------------------------------------------ state
VARIABLES
  anthropicApiKey,           \* agentConfig.anthropicApiKey
  enableExternalMarketData,  \* agentConfig.enableExternalMarketData
  toolRegistry,              \* ToolRegistry.tools, in insertion order
  pc,                        \* position of the chat() coroutine
  call1Content,              \* call1Response.content
  toolUseBlocks,             \* tool_use blocks of call #1, in order
  idx,                       \* position of the for loop over toolUseBlocks
  toolTrace,                 \* ToolTraceRow[]
  toolResultBlocks,          \* tool_result blocks for call #2
  toolResults,               \* Map<string, unknown>
  toolsSucceeded,
  toolsFailed,
  llmCalls,                  \* client.messages.create calls of this turn
  running,                   \* loop positions whose executor has not settled
  executed,                  \* loop positions whose executor was invoked
  rejections,                \* loop positions whose executor raised, with the message
  llmFailure,                \* number of the LLM call that rejected, 0 if none
  outcome                    \* what chat() gave its caller

orchVars ==
  <<anthropicApiKey, enableExternalMarketData, toolRegistry, pc, call1Content,
    toolUseBlocks, idx, toolTrace, toolResultBlocks, toolResults,
    toolsSucceeded, toolsFailed, llmCalls, running, executed, rejections,
    llmFailure, outcome>>

\* the WebSocket bridge, one socket
VARIABLES
  agentEnabled,     \* AgentService.isEnabled(): AGENT_SERVICE_URL is set
  wsReadyState,     \* ws.readyState
  abortController,  \* the connection's abortController: 0 is null, else the
                    \* number of the turn whose handler created it
  aborted,          \* signal.aborted of the controller of each turn
  turnPc,           \* where the message handler of each turn is suspended
  chunksRead,       \* chunks each turn has read from its upstream body
  upstream,         \* per turn: the chunks its read loop took, in order
  wsSent,           \* what ws.send was given, in order
  inbound,          \* chat and other messages handled so far
  lastInbound,      \* type of the last inbound message handled
  afterCancel,      \* turns whose chat message came right after a cancel
  cancelledAt,      \* per turn: events it had sent when a cancel was handled
                    \* with it as the one turn in flight, -1 if none was
  clientOverlapped  \* a chat message came while an uncancelled turn was in flight

wsVars ==
  <<agentEnabled, wsReadyState, abortController, aborted, turnPc, chunksRead,
    upstream, wsSent, inbound, lastInbound, afterCancel, cancelledAt,
    clientOverlapped>>

\* the agent endpoints of the API server and the upgrade handler
VARIABLES
  gwLog,        \* the requests handled so far, each with what it was answered
  httpPending,  \* the controller call that awaits its upstream fetch
  gwChats       \* the sockets, by place in gwLog, a chat message of which
                \* reached a message handler

gwVars == <<gwLog, httpPending, gwChats>>

\* a call of computeConfidence
VARIABLES
  confidenceArgs,   \* the argument object
  confidenceResult  \* the returned score in tenths, -1 before the return

\* a call of verifyAgentResponse, of a registry method or of a tool executor
VARIABLES
  callInput,     \* what the call was given
  callPc,        \* "idle", "called", "awaiting" the provider, "returned", "raised"
  callOutput,    \* what it returned, or the error it raised
  providerCalls  \* the PortfolioService methods the calls invoked, in order

callVars == <<callInput, callPc, callOutput, providerCalls>>

fnVars == <<confidenceArgs, confidenceResult, callVars>>

\* concurrent calls of chat() on one AgentService
VARIABLES
  chats  \* per call, the locals of its activation record, and under own
         \* what the LLM and the executors answered this call with

chatVars == <<chats>>

\* the chat page of the client, its WebSocket and the bridge behind it
VARIABLES
  page,         \* the fields of GfAgentPageComponent (the handler by the id
                \* of the request it was made for), and the frames it sent
  toBridge,     \* frames on their way to the bridge
  toClient,     \* events on their way to the page, each with its turn
  bridgeTurns,  \* per request, where the bridge is with its turn
  pageLog       \* the events the page received, and which handler got which

clientVars == <<page, toBridge, toClient, bridgeTurns, pageLog>>

\* what a step of the orchestrator leaves alone, a step of the bridge, a
\* step of the endpoints, and a call of a verifier function
notOrchVars == <<wsVars, gwVars, fnVars, chatVars, clientVars>>
notWsVars == <<orchVars, gwVars, fnVars, chatVars, clientVars>>
notGwVars == <<orchVars, wsVars, fnVars, chatVars, clientVars>>
notFnVars == <<orchVars, wsVars, gwVars, chatVars, clientVars>>
notChatVars == <<orchVars, wsVars, gwVars, fnVars, clientVars>>
notClientVars == <<orchVars, wsVars, gwVars, fnVars, chatVars>>

vars == <<orchVars, wsVars, gwVars, fnVars, chatVars, clientVars>>

\* the chat page as constructed, on an open socket with nothing under way
ClientIdle ==
  /\ page = [isSending |-> FALSE, queuedMessages |-> <<>>,
             activeRequestId |-> 0, requestCounter |-> 0,
             wsMessageHandler |-> 0, typed |-> 0, sent |-> <<>>]
  /\ toBridge = <<>>
  /\ toClient = <<>>
  /\ bridgeTurns = [r \in 1..MaxSends |-> "none"]
  /\ pageLog = [received |-> {}, handled |-> {}]

\* no call of chat() has begun
ChatsIdle ==
  chats = [c \in 1..MaxChats |->
             [pc |-> "idle", toolUseBlocks |-> <<>>, idx |-> 1,
              toolTrace |-> <<>>,
              toolResults |-> [n \in RequestNames |-> NoResult],
              toolsSucceeded |-> 0, toolsFailed |-> 0, outcome |-> NoOutcome,
              own |-> [phase |-> "none", call1 |-> <<>>, settled |-> <<>>,
                       call2 |-> <<>>]]]

\* ---------------------------------------------------------- tool registry
\* Map.set: an existing key keeps its position, a new key is appended
Register_Append(tools, tool) == Append(tools, tool)

Register(tools, tool) ==
  IF \E k \in 1..Len(tools) : tools[k].definition.name = tool.definition.name
    THEN [k \in 1..Len(tools) |->
            IF tools[k].definition.name = tool.definition.name
              THEN tool
              ELSE tools[k]]
    ELSE Append(tools, tool)

GetDefinitions(tools) ==
  LET enabledTools == SelectSeq(tools, LAMBDA t : t.enabled)
  IN  [k \in 1..Len(enabledTools) |-> enabledTools[k].definition]

\* this.tools.get(name)
ToolsGet(tools, name) ==
  tools[CHOOSE k \in 1..Len(tools) : tools[k].definition.name = name]

GetExecutor_NoEnabledCheck(tools, name) ==
  IF \E k \in 1..Len(tools) : tools[k].definition.name = name
    THEN ToolsGet(tools, name).executor
    ELSE NoExecutor

GetExecutor(tools, name) ==
  IF \E k \in 1..Len(tools) :
       tools[k].definition.name = name /\ ~tools[k].enabled
    THEN NoExecutor
    ELSE IF \E k \in 1..Len(tools) : tools[k].definition.name = name
           THEN ToolsGet(tools, name).executor
           ELSE NoExecutor

IsEnabled_WhenPresent(tools, name) ==
  \E k \in 1..Len(tools) : tools[k].definition.name = name

\* this.tools.get(name)?.enabled ?? false
IsEnabled(tools, name) ==
  \E k \in 1..Len(tools) : tools[k].definition.name = name /\ tools[k].enabled

GetToolNames(tools) ==
  LET enabledTools == SelectSeq(tools, LAMBDA t : t.enabled)
  IN  [k \in 1..Len(enabledTools) |-> enabledTools[k].definition.name]

\* the DEFINITION constant of a tool class, and an instance of the class
DefinitionOf(name) == [name |-> name, description |-> "DEFINITION"]

ExecutorOf(name) == [tool |-> name, instance |-> "constructor"]

\* the four registrations of the AgentService constructor
ConstructRegistry(marketFlag) ==
  Register(
    Register(
      Register(
        Register(<<>>, [definition |-> DefinitionOf(SnapshotName),
                        executor |-> ExecutorOf(SnapshotName),
                        enabled |-> TRUE]),
        [definition |-> DefinitionOf(PerformanceName),
         executor |-> ExecutorOf(PerformanceName),
         enabled |-> TRUE]),
      [definition |-> DefinitionOf(SimulateName),
       executor |-> ExecutorOf(SimulateName),
       enabled |-> TRUE]),
    [definition |-> DefinitionOf(MarketPricesName),
     executor |-> ExecutorOf(MarketPricesName),
     enabled |-> marketFlag])

\* ------------------------------------------------------------ tool results
\* what the orchestrator reads of a PortfolioSnapshotResult: a snapshot with
\* full market data, one on cost basis, one of an empty portfolio, and one
\* whose percents do not add up
SnapshotResults ==
  { [kind |-> "snapshot", valuationMethod |-> "market", asOf |-> "today",
     isPriceDataMissing |-> FALSE, holdings |-> 1, percentSum |-> 10000,
     totalValue |-> 1000],
    [kind |-> "snapshot", valuationMethod |-> "cost_basis", asOf |-> "null",
     isPriceDataMissing |-> TRUE, holdings |-> 1, percentSum |-> 10000,
     totalValue |-> 500],
    [kind |-> "snapshot", valuationMethod |-> "market", asOf |-> "today",
     isPriceDataMissing |-> FALSE, holdings |-> 0, percentSum |-> 0,
     totalValue |-> 0],
    [kind |-> "snapshot", valuationMethod |-> "market", asOf |-> "today",
     isPriceDataMissing |-> FALSE, holdings |-> 1, percentSum |-> 9800,
     totalValue |-> 1000] }

ResultsOf(name) ==
  IF name = SnapshotName THEN SnapshotResults ELSE {[kind |-> name]}


\* ---------------------------------------------------------------- verifier
AdviceWarning == "Response may contain financial advice language."
AllocationWarning == "Allocation percentages deviate from 100%."
ValuationWarning == "Response does not mention that values are based on cost basis."

\* ALLOCATION_SUM_TOLERANCE; percents are counted in hundredths, as the
\* snapshot rounds them to two decimals
AllocationSumTolerance == 100

Abs(x) == IF x < 0 THEN -x ELSE x

\* FORBIDDEN_ADVICE_PATTERNS, each by a phrase it matches
AdvicePatterns == <<"you should buy", "I recommend selling">>

\* the for loop over the patterns: pattern.test(answer)
MatchesAdvicePattern(answer) ==
  \E p \in 1..Len(AdvicePatterns) :
    \E i \in 1..Len(answer) : answer[i] = AdvicePatterns[p]

\* VALUATION_KEYWORDS searched in the joined answer
MentionsCostBasis(answer) ==
  \E i \in 1..Len(answer) : answer[i] = "cost basis"

CheckAdviceBoundary(answer) ==
  IF MatchesAdvicePattern(answer)
    THEN [warnings |-> <<AdviceWarning>>, confidenceAdjustment |-> 2]
    ELSE [warnings |-> <<>>, confidenceAdjustment |-> 0]

CheckAllocationSum_AtTolerance(snapshot) ==
  IF snapshot.holdings = 0
    THEN [warnings |-> <<>>, confidenceAdjustment |-> 0]
    ELSE IF Abs(snapshot.percentSum - 10000) >= AllocationSumTolerance
           THEN [warnings |-> <<AllocationWarning>>, confidenceAdjustment |-> 1]
           ELSE [warnings |-> <<>>, confidenceAdjustment |-> 0]

\* the snapshot carries one allocation row per holding
CheckAllocationSum(snapshot) ==
  IF snapshot.holdings = 0
    THEN [warnings |-> <<>>, confidenceAdjustment |-> 0]
    ELSE IF Abs(snapshot.percentSum - 10000) > AllocationSumTolerance
           THEN [warnings |-> <<AllocationWarning>>, confidenceAdjustment |-> 1]
           ELSE [warnings |-> <<>>, confidenceAdjustment |-> 0]

CheckValuationLabel(answer) ==
  IF ~MentionsCostBasis(answer)
    THEN [warnings |-> <<ValuationWarning>>, confidenceAdjustment |-> 1]
    ELSE [warnings |-> <<>>, confidenceAdjustment |-> 0]

NoCheck == [warnings |-> <<>>, confidenceAdjustment |-> 0]

VerifyAgentResponse(answer, results) ==
  LET snapshotResult == results[SnapshotName]
      adviceResult == CheckAdviceBoundary(answer)
      allocationResult ==
        IF snapshotResult # NoResult
          THEN CheckAllocationSum(snapshotResult) ELSE NoCheck
      valuationResult ==
        IF snapshotResult # NoResult /\ snapshotResult.isPriceDataMissing
          THEN CheckValuationLabel(answer) ELSE NoCheck
  IN  [warnings |->
         adviceResult.warnings \o allocationResult.warnings
           \o valuationResult.warnings,
       confidenceAdjustment |->
         adviceResult.confidenceAdjustment
           + allocationResult.confidenceAdjustment
           + valuationResult.confidenceAdjustment]

ComputeConfidence_HoldingsFirst(hasErrors, isPriceDataMissing, succeeded, failed, hasHoldings) ==
  IF ~hasHoldings THEN 4
  ELSE IF failed > 0 /\ succeeded = 0 THEN 1
  ELSE IF failed > 0 THEN 4
  ELSE IF isPriceDataMissing \/ hasErrors THEN 7
  ELSE 10

ComputeConfidence(hasErrors, isPriceDataMissing, succeeded, failed, hasHoldings) ==
  IF failed > 0 /\ succeeded = 0 THEN 1
  ELSE IF ~hasHoldings THEN 4
  ELSE IF failed > 0 THEN 4
  ELSE IF isPriceDataMissing \/ hasErrors THEN 7
  ELSE 10

Max(a, b) == IF a >= b THEN a ELSE b

\* --------------------------------------------------------------- responses
NotConfiguredMessage ==
  <<"The portfolio analysis agent is not currently configured. Please set the ANTHROPIC_API_KEY environment variable.">>

ErrorMessage(errorMsg) ==
  <<"I encountered an error while processing your request. Please try again.",
    errorMsg>>

UnknownToolError(name) == <<"Unknown or disabled tool", name>>

Returned(response) == [kind |-> "returned", response |-> response]

IsConfigured_Always(key) == TRUE

\* the guard at the top of chat(): the key is a non-empty string
IsConfigured(key) == key # ""

BuildErrorResponse_Confident(message, trace) ==
  [answer |-> message, valuationMethod |-> "market", asOf |-> "null",
   toolTrace |-> trace, confidence |-> 4, warnings |-> <<>>]

BuildErrorResponse(message, trace) ==
  [answer |-> message, valuationMethod |-> "market", asOf |-> "null",
   toolTrace |-> trace, confidence |-> 1, warnings |-> <<>>]

CatchBlock_Retry(errorMsg, trace) ==
  [pc |-> "idle", outcome |-> NoOutcome]

\* the catch block of chat(): log, then return the error response
CatchBlock(errorMsg, trace) ==
  [pc |-> "done",
   outcome |-> Returned(BuildErrorResponse(ErrorMessage(errorMsg), trace))]

\* content.filter(text).map(text).join
ExtractText(content) ==
  LET textBlocks == SelectSeq(content, LAMBDA b : b.type = "text")
  IN  [k \in 1..Len(textBlocks) |-> textBlocks[k].text]

\* content.filter(tool_use); the id of a block is its place in the content
ToolUseBlocks(content) ==
  LET places == SelectSeq([i \in 1..Len(content) |-> i],
                          LAMBDA i : content[i].type = "tool_use")
  IN  [k \in 1..Len(places) |->
         [id |-> places[k], name |-> content[places[k]].name]]

IsDirectAnswer_Never(blocks) == FALSE

\* toolUseBlocks.length === 0
IsDirectAnswer(blocks) == Len(blocks) = 0

LoopDone_AfterFirst(i, blocks) == i > 1

\* the for loop over toolUseBlocks has run off its end
LoopDone(i, blocks) == i > Len(blocks)

ResultsSet_KeepFirst(results, name, result) ==
  IF results[name] = NoResult THEN [results EXCEPT ![name] = result] ELSE results

\* toolResults.set
ResultsSet(results, name, result) == [results EXCEPT ![name] = result]

TracePush_Front(trace, row) == <<row>> \o trace

\* toolTrace.push
TracePush(trace, row) == Append(trace, row)

\* what snapshotResult?.field gives without a snapshot result
Undefined == "undefined"

DirectResponse(content, trace, results) ==
  LET textContent == ExtractText(content)
      verification == VerifyAgentResponse(textContent, results)
  IN  [answer |-> textContent, valuationMethod |-> "market", asOf |-> "null",
       toolTrace |-> trace,
       confidence |-> ComputeConfidence(FALSE, FALSE, 0, 0, TRUE),
       warnings |-> verification.warnings]

\* the confidence of a turn before the penalties of the verification
BaseConfidence(results, succeeded, failed) ==
  LET snapshotResult == results[SnapshotName]
      present == snapshotResult # NoResult
      isPriceDataMissing == present /\ snapshotResult.isPriceDataMissing
      hasHoldings == present /\ snapshotResult.holdings > 0
      hasErrors == IF present THEN FALSE ELSE failed > 0
  IN  ComputeConfidence(hasErrors, isPriceDataMissing, succeeded, failed,
                        hasHoldings)

FinalResponse(content, trace, results, succeeded, failed) ==
  LET answer == ExtractText(content)
      verification == VerifyAgentResponse(answer, results)
      snapshotResult == results[SnapshotName]
      present == snapshotResult # NoResult
      baseConfidence == BaseConfidence(results, succeeded, failed)
  IN  [answer |-> answer,
       valuationMethod |->
         IF present THEN snapshotResult.valuationMethod ELSE "market",
       asOf |-> IF present THEN snapshotResult.asOf ELSE "null",
       totalValue |->
         IF present THEN snapshotResult.totalValue ELSE Undefined,
       allocationBySymbol |->
         IF present
           THEN [rows |-> snapshotResult.holdings,
                 percentSum |-> snapshotResult.percentSum]
           ELSE Undefined,
       toolTrace |-> trace,
       confidence |-> Max(0, baseConfidence - verification.confidenceAdjustment),
       warnings |-> verification.warnings]


\* ------------------------------------------------- orchestrator: one turn
\* the per-turn locals of chat() as they stand before the first statement
TurnLocalsInit ==
  /\ call1Content = <<>>
  /\ toolUseBlocks = <<>>
  /\ idx = 1
  /\ toolTrace = <<>>
  /\ toolResultBlocks = <<>>
  /\ toolResults = [n \in RequestNames |-> NoResult]
  /\ toolsSucceeded = 0
  /\ toolsFailed = 0
  /\ llmCalls = <<>>
  /\ running = {}
  /\ executed = <<>>
  /\ rejections = {}
  /\ llmFailure = 0
  /\ outcome = NoOutcome

OrchInit ==
  /\ anthropicApiKey \in {"", "test-api-key"}
  /\ enableExternalMarketData \in BOOLEAN
  /\ toolRegistry = ConstructRegistry(enableExternalMarketData)
  /\ pc = "idle"
  /\ TurnLocalsInit

configVars == <<anthropicApiKey, enableExternalMarketData, toolRegistry>>

\* chat() up to its first await: the configuration guard, then LLM call #1
ChatStart ==
  /\ pc = "idle"
  /\ toolTrace' = <<>>
  /\ toolResults' = [n \in RequestNames |-> NoResult]
  /\ toolsSucceeded' = 0
  /\ toolsFailed' = 0
  /\ IF ~IsConfigured(anthropicApiKey)
       THEN /\ outcome' = Returned(BuildErrorResponse(NotConfiguredMessage, <<>>))
            /\ pc' = "done"
            /\ UNCHANGED llmCalls
       ELSE /\ llmCalls' =
                 Append(llmCalls,
                        [call |-> 1, tools |-> GetDefinitions(toolRegistry)])
            /\ pc' = "awaitCall1"
            /\ UNCHANGED outcome
  /\ UNCHANGED <<configVars, rejections, call1Content, toolUseBlocks, idx,
                 toolResultBlocks, running, executed, llmFailure>>
  /\ UNCHANGED notOrchVars

\* call #1 resolves: either the direct answer or the start of the tool loop
Call1Resolve(content) ==
  /\ pc = "awaitCall1"
  /\ call1Content' = content
  /\ toolUseBlocks' = ToolUseBlocks(content)
  /\ IF IsDirectAnswer(ToolUseBlocks(content))
       THEN /\ outcome' = Returned(DirectResponse(content, toolTrace, toolResults))
            /\ pc' = "done"
       ELSE /\ pc' = "loop"
            /\ UNCHANGED outcome
  /\ idx' = 1
  /\ toolResultBlocks' = <<>>
  /\ UNCHANGED <<configVars, rejections, toolTrace, toolResults, toolsSucceeded,
                 toolsFailed, llmCalls, running, executed, llmFailure>>
  /\ UNCHANGED notOrchVars

\* call #1 rejects: the catch block
Call1Reject(errorMsg) ==
  /\ pc = "awaitCall1"
  /\ llmFailure' = 1
  /\ pc' = CatchBlock(errorMsg, toolTrace).pc
  /\ outcome' = CatchBlock(errorMsg, toolTrace).outcome
  /\ UNCHANGED <<configVars, rejections, call1Content, toolUseBlocks, idx, toolTrace,
                 toolResultBlocks, toolResults, toolsSucceeded, toolsFailed,
                 llmCalls, running, executed>>
  /\ UNCHANGED notOrchVars

ErrorResultBlock_Unflagged(toolUse) == [tool_use_id |-> toolUse.id, is_error |-> FALSE]

\* the tool_result block of a request that was not executed or that failed
ErrorResultBlock(toolUse) == [tool_use_id |-> toolUse.id, is_error |-> TRUE]

\* a loop iteration whose tool has no executor
ToolUnknown ==
  /\ pc = "loop"
  /\ ~LoopDone(idx, toolUseBlocks)
  /\ idx <= Len(toolUseBlocks)
  /\ LET toolUse == toolUseBlocks[idx]
     IN  /\ GetExecutor(toolRegistry, toolUse.name) = NoExecutor
         /\ toolsFailed' = toolsFailed + 1
         /\ toolTrace' =
              TracePush(toolTrace,
                        [tool |-> toolUse.name, ok |-> FALSE,
                         error |-> UnknownToolError(toolUse.name)])
         /\ toolResultBlocks' =
              Append(toolResultBlocks, ErrorResultBlock(toolUse))
  /\ idx' = idx + 1
  /\ UNCHANGED <<configVars, rejections, pc, call1Content, toolUseBlocks, toolResults,
                 toolsSucceeded, llmCalls, running, executed, llmFailure,
                 outcome>>
  /\ UNCHANGED notOrchVars

\* a loop iteration up to its await: executor.execute is called
ToolExecStart ==
  /\ pc = "loop"
  /\ ~LoopDone(idx, toolUseBlocks)
  /\ idx <= Len(toolUseBlocks)
  /\ GetExecutor(toolRegistry, toolUseBlocks[idx].name) # NoExecutor
  /\ running' = running \cup {idx}
  /\ executed' = Append(executed, idx)
  /\ pc' = "awaitTool"
  /\ UNCHANGED <<configVars, rejections, call1Content, toolUseBlocks, idx, toolTrace,
                 toolResultBlocks, toolResults, toolsSucceeded, toolsFailed,
                 llmCalls, llmFailure, outcome>>
  /\ UNCHANGED notOrchVars

\* the executor resolves
ToolExecResolve(result) ==
  /\ pc = "awaitTool"
  /\ LET toolUse == toolUseBlocks[idx]
     IN  /\ result \in ResultsOf(toolUse.name)
         /\ toolResults' = ResultsSet(toolResults, toolUse.name, result)
         /\ toolsSucceeded' = toolsSucceeded + 1
         /\ toolTrace' =
              TracePush(toolTrace,
                        [tool |-> toolUse.name, ok |-> TRUE, error |-> <<>>])
         /\ toolResultBlocks' =
              Append(toolResultBlocks,
                     [tool_use_id |-> toolUse.id, is_error |-> FALSE,
                      content |-> result])
  /\ running' = running \ {idx}
  /\ idx' = idx + 1
  /\ pc' = "loop"
  /\ UNCHANGED <<configVars, rejections, call1Content, toolUseBlocks, toolsFailed,
                 llmCalls, executed, llmFailure, outcome>>
  /\ UNCHANGED notOrchVars

\* the executor rejects: the catch inside the loop
ToolExecReject(errorMsg) ==
  /\ pc = "awaitTool"
  /\ LET toolUse == toolUseBlocks[idx]
     IN  /\ toolsFailed' = toolsFailed + 1
         /\ toolTrace' =
              TracePush(toolTrace,
                        [tool |-> toolUse.name, ok |-> FALSE,
                         error |-> <<errorMsg>>])
         /\ toolResultBlocks' =
              Append(toolResultBlocks, ErrorResultBlock(toolUse))
  /\ rejections' = rejections \cup {[at |-> idx, message |-> errorMsg]}
  /\ running' = running \ {idx}
  /\ idx' = idx + 1
  /\ pc' = "loop"
  /\ UNCHANGED <<configVars, call1Content, toolUseBlocks, toolResults,
                 toolsSucceeded, llmCalls, executed, llmFailure, outcome>>
  /\ UNCHANGED notOrchVars

\* the loop is over: LLM call #2 is issued
IssueCall2 ==
  /\ pc = "loop"
  /\ LoopDone(idx, toolUseBlocks)
  /\ llmCalls' =
       Append(llmCalls, [call |-> 2, tools |-> GetDefinitions(toolRegistry),
                         assistantTurn |-> call1Content,
                         userTurn |-> toolResultBlocks])
  /\ pc' = "awaitCall2"
  /\ UNCHANGED <<configVars, rejections, call1Content, toolUseBlocks, idx, toolTrace,
                 toolResultBlocks, toolResults, toolsSucceeded, toolsFailed,
                 running, executed, llmFailure, outcome>>
  /\ UNCHANGED notOrchVars

\* call #2 resolves: verification and response assembly
Call2Resolve(content) ==
  /\ pc = "awaitCall2"
  /\ outcome' =
       Returned(FinalResponse(content, toolTrace, toolResults,
                              toolsSucceeded, toolsFailed))
  /\ pc' = "done"
  /\ UNCHANGED <<configVars, rejections, call1Content, toolUseBlocks, idx, toolTrace,
                 toolResultBlocks, toolResults, toolsSucceeded, toolsFailed,
                 llmCalls, running, executed, llmFailure>>
  /\ UNCHANGED notOrchVars

\* call #2 rejects: the catch block
Call2Reject(errorMsg) ==
  /\ pc = "awaitCall2"
  /\ llmFailure' = 2
  /\ pc' = CatchBlock(errorMsg, toolTrace).pc
  /\ outcome' = CatchBlock(errorMsg, toolTrace).outcome
  /\ UNCHANGED <<configVars, rejections, call1Content, toolUseBlocks, idx, toolTrace,
                 toolResultBlocks, toolResults, toolsSucceeded, toolsFailed,
                 llmCalls, running, executed>>
  /\ UNCHANGED notOrchVars

\* the caller has its response; the next request arrives
NextRequest ==
  /\ pc = "done"
  /\ pc' = "idle"
  /\ call1Content' = <<>>
  /\ toolUseBlocks' = <<>>
  /\ idx' = 1
  /\ toolTrace' = <<>>
  /\ toolResultBlocks' = <<>>
  /\ toolResults' = [n \in RequestNames |-> NoResult]
  /\ toolsSucceeded' = 0
  /\ toolsFailed' = 0
  /\ llmCalls' = <<>>
  /\ running' = {}
  /\ executed' = <<>>
  /\ rejections' = {}
  /\ llmFailure' = 0
  /\ outcome' = NoOutcome
  /\ UNCHANGED configVars
  /\ UNCHANGED notOrchVars

\* ------------------------------------------------------ WebSocket bridge
Turns == 1..MaxTurns

\* the data payloads of the frames of an upstream SSE body: one that is the
\* JSON text of an event, written with blanks, and one that is cut short; an
\* event is told from the others of its turn by the chunk and the place in
\* the chunk it came in
TokenPayload == "{ \"type\": \"token\" }"
CutPayload == "{\"type\":"
Frames == {TokenPayload, CutPayload}

SyntaxError == [error |-> "SyntaxError"]

\* JSON.parse of a data payload
JsonParse(text) ==
  CASE text = "{ \"type\": \"token\" }" -> [type |-> "token"]
    [] text = "{\"type\":\"token\"}" -> [type |-> "token"]
    [] text = "{\"type\":\"error\"}" -> [type |-> "error"]
    [] OTHER -> SyntaxError

\* JSON.stringify of an event object
JsonStringify(value) ==
  CASE value = [type |-> "token"] -> "{\"type\":\"token\"}"
    [] value = [type |-> "error"] -> "{\"type\":\"error\"}"
Chunks == UNION {[1..n -> Frames] : n \in 0..MaxFrames}

\* settlements of reader.read(): a chunk, the end of the body, a network
\* error, the rejection that follows abort()
ReadResults ==
  [kind : {"chunk"}, frames : Chunks]
    \cup [kind : {"done", "networkError", "abortError"}, frames : {<<>>}]

\* settlements of fetch()
FetchResults == {"ok", "httpError", "emptyBody", "networkError", "abortError"}

TurnActive(t) == turnPc[t] \in {"fetch", "text", "read"}

\* the turns in flight that no abort has reached
InFlight == {t \in Turns : TurnActive(t) /\ ~aborted[t]}

SentBy(t) == Len(SelectSeq(wsSent, LAMBDA e : e.turn = t))

RECURSIVE SumUpTo(_, _)
SumUpTo(f, n) == IF n = 0 THEN 0 ELSE f[n] + SumUpTo(f, n - 1)

ChunksReadInAll == SumUpTo(chunksRead, MaxTurns)

\* the number the next chat turn gets
NewTurn == CHOOSE t \in Turns :
             /\ turnPc[t] = "unborn"
             /\ \A u \in Turns : u < t => turnPc[u] # "unborn"

\* abortController?.abort()
AbortCurrent(controller, flags) ==
  IF controller = 0 THEN flags ELSE [flags EXCEPT ![controller] = TRUE]

\* JSON.parse of each event payload; a payload that does not parse is
\* skipped.  The result lists the places of the frames that parse.
ParsedEvents_StopAtMalformed(frames) ==
  SelectSeq([k \in 1..Len(frames) |-> k],
            LAMBDA k : \A j \in 1..k : JsonParse(frames[j]) # SyntaxError)

ParsedEvents(frames) ==
  SelectSeq([k \in 1..Len(frames) |-> k],
            LAMBDA k : JsonParse(frames[k]) # SyntaxError)

\* the two breaks at the top of the read loop
ReadLoopBreaks(done, signalAborted) == done \/ signalAborted

\* ws.send(JSON.stringify(event)) for each event yielded from one chunk
Forward(sent, t, chunk, frames, events) ==
  sent \o [k \in 1..Len(events) |->
            [turn |-> t, type |-> "event", chunk |-> chunk, frame |-> events[k],
             data |-> JsonStringify(JsonParse(frames[events[k]]))]]

\* an error reply; turn 0 stands for a reply outside any turn
ErrorEvent(t) ==
  [turn |-> t, type |-> "error", chunk |-> 0, frame |-> 0,
   data |-> JsonStringify([type |-> "error"])]

WsIdle ==
  /\ wsReadyState = "OPEN"
  /\ abortController = 0
  /\ aborted = [t \in Turns |-> FALSE]
  /\ turnPc = [t \in Turns |-> "unborn"]
  /\ chunksRead = [t \in Turns |-> 0]
  /\ upstream = [t \in Turns |-> <<>>]
  /\ wsSent = <<>>
  /\ inbound = [chat |-> 0, other |-> 0]
  /\ lastInbound = "none"
  /\ afterCancel = {}
  /\ cancelledAt = [t \in Turns |-> -1]
  /\ clientOverlapped = FALSE

\* the message handler for a well-formed chat message, up to its first await
WsChatMessage ==
  /\ wsReadyState = "OPEN"
  /\ inbound.chat < MaxTurns
  /\ inbound' = [inbound EXCEPT !.chat = @ + 1]
  /\ lastInbound' = "chat"
  /\ IF ~agentEnabled
       THEN /\ wsSent' = Append(wsSent, ErrorEvent(0))
            /\ UNCHANGED <<abortController, turnPc, afterCancel,
                           clientOverlapped>>
       ELSE /\ abortController' = NewTurn
            /\ turnPc' = [turnPc EXCEPT ![NewTurn] = "fetch"]
            /\ afterCancel' =
                 IF lastInbound = "cancel"
                   THEN afterCancel \cup {NewTurn} ELSE afterCancel
            /\ clientOverlapped' = (clientOverlapped \/ InFlight # {})
            /\ UNCHANGED wsSent
  /\ UNCHANGED <<agentEnabled, wsReadyState, aborted, chunksRead, upstream,
                 cancelledAt>>
  /\ UNCHANGED notWsVars

\* the message handler for {type: "cancel"}
WsCancelMessage ==
  /\ wsReadyState = "OPEN"
  /\ lastInbound' = "cancel"
  /\ aborted' = AbortCurrent(abortController, aborted)
  /\ cancelledAt' =
       [t \in Turns |->
          IF /\ InFlight = {t}
             /\ ~clientOverlapped
             /\ cancelledAt[t] = -1
            THEN SentBy(t) ELSE cancelledAt[t]]
  /\ UNCHANGED <<agentEnabled, wsReadyState, abortController, turnPc,
                 chunksRead, upstream, wsSent, inbound, afterCancel,
                 clientOverlapped>>
  /\ UNCHANGED notWsVars

\* inbound texts that are neither a chat message nor a cancel: text that is
\* not JSON, JSON of another shape (another type, a chat without message or
\* without a history array), and the JSON text null
OtherShapes == {"notJson", "wrongShape", "jsonNull"}

\* the message handler for such a text.  JSON.parse gives null for the text
\* null, and reading msg.type of null throws outside the try statement: the
\* async handler rejects after sending nothing.
WsOtherMessage(shape) ==
  /\ wsReadyState = "OPEN"
  /\ inbound.other < MaxOthers
  /\ inbound' = [inbound EXCEPT !.other = @ + 1]
  /\ lastInbound' = "other"
  /\ IF shape = "jsonNull"
       THEN UNCHANGED wsSent
       ELSE wsSent' = Append(wsSent, ErrorEvent(0))
  /\ UNCHANGED <<agentEnabled, wsReadyState, abortController, aborted, turnPc,
                 chunksRead, upstream, afterCancel, cancelledAt,
                 clientOverlapped>>
  /\ UNCHANGED notWsVars

\* the close handler
WsClose ==
  /\ wsReadyState = "OPEN"
  /\ wsReadyState' = "CLOSED"
  /\ aborted' = AbortCurrent(abortController, aborted)
  /\ UNCHANGED <<agentEnabled, abortController, turnPc, chunksRead, upstream,
                 wsSent, inbound, lastInbound, afterCancel, cancelledAt,
                 clientOverlapped>>
  /\ UNCHANGED notWsVars

TurnEnds_KeepController(t) ==
  /\ turnPc' = [turnPc EXCEPT ![t] = "done"]
  /\ UNCHANGED abortController

\* the handler of turn t leaves its try statement: finally resets the
\* connection's abortController
TurnEnds(t) ==
  /\ turnPc' = [turnPc EXCEPT ![t] = "done"]
  /\ abortController' = 0

\* the error events the handler or the generator send only to an open socket
SendIfOpen(event) ==
  wsSent' = IF wsReadyState = "OPEN" THEN Append(wsSent, event) ELSE wsSent

\* fetch() settles and the handler of turn t runs to its next await
FetchSettle(t, result) ==
  /\ turnPc[t] = "fetch"
  /\ result = "abortError" <=> aborted[t]
  /\ CASE result = "ok" ->
            /\ turnPc' = [turnPc EXCEPT ![t] = "read"]
            /\ UNCHANGED <<abortController, wsSent>>
       [] result = "httpError" ->
            /\ turnPc' = [turnPc EXCEPT ![t] = "text"]
            /\ UNCHANGED <<abortController, wsSent>>
       [] result = "emptyBody" ->
            /\ SendIfOpen(ErrorEvent(t))
            /\ TurnEnds(t)
       [] result = "networkError" ->
            /\ SendIfOpen(ErrorEvent(t))
            /\ TurnEnds(t)
       [] result = "abortError" ->
            /\ UNCHANGED wsSent
            /\ TurnEnds(t)
  /\ UNCHANGED <<agentEnabled, wsReadyState, aborted, chunksRead, upstream,
                 inbound, lastInbound, afterCancel, cancelledAt,
                 clientOverlapped>>
  /\ UNCHANGED notWsVars

\* agentRes.text() of a non-2xx response settles: one error event, unless
\* the request was aborted
TextSettle(t) ==
  /\ turnPc[t] = "text"
  /\ IF aborted[t] THEN UNCHANGED wsSent ELSE SendIfOpen(ErrorEvent(t))
  /\ TurnEnds(t)
  /\ UNCHANGED <<agentEnabled, wsReadyState, aborted, chunksRead, upstream,
                 inbound, lastInbound, afterCancel, cancelledAt,
                 clientOverlapped>>
  /\ UNCHANGED notWsVars

\* reader.read() settles and the handler of turn t runs to its next await
ReadSettle(t, result) ==
  /\ turnPc[t] = "read"
  /\ result.kind = "abortError" => aborted[t]
  /\ result.kind = "networkError" => ~aborted[t]
  /\ result.kind = "chunk" => ChunksReadInAll < MaxChunks
  /\ CASE result.kind \in {"abortError"} ->
            /\ UNCHANGED <<wsSent, chunksRead, upstream>>
            /\ TurnEnds(t)
       [] result.kind = "networkError" ->
            /\ SendIfOpen(ErrorEvent(t))
            /\ UNCHANGED <<chunksRead, upstream>>
            /\ TurnEnds(t)
       [] result.kind \in {"done", "chunk"} ->
            IF ReadLoopBreaks(result.kind = "done", aborted[t])
              THEN /\ UNCHANGED <<wsSent, chunksRead, upstream>>
                   /\ TurnEnds(t)
              ELSE /\ chunksRead' = [chunksRead EXCEPT ![t] = @ + 1]
                   /\ upstream' = [upstream EXCEPT ![t] = Append(@, result.frames)]
                   /\ IF ParsedEvents(result.frames) = <<>>
                        THEN UNCHANGED <<wsSent, turnPc, abortController>>
                        ELSE IF wsReadyState # "OPEN"
                               THEN /\ UNCHANGED wsSent
                                    /\ TurnEnds(t)
                               ELSE /\ wsSent' =
                                         Forward(wsSent, t, chunksRead[t] + 1,
                                                 result.frames,
                                                 ParsedEvents(result.frames))
                                    /\ UNCHANGED <<turnPc, abortController>>
  /\ UNCHANGED <<agentEnabled, wsReadyState, aborted, inbound, lastInbound,
                 afterCancel, cancelledAt, clientOverlapped>>
  /\ UNCHANGED notWsVars

\* ------------------------------------------- endpoints and upgrade handler
AGENT_WS_PATH == <<"/api/v1/agent/ws">>

\* request.url up to the query string, in pieces: the agent path, the agent
\* path with more text or another segment after it, some other path, and
\* the empty url
Urls ==
  { AGENT_WS_PATH, AGENT_WS_PATH \o <<"-debug">>, AGENT_WS_PATH \o <<"/extra">>,
    <<"/socket.io">>, <<>> }

\* searchParams.get('token'): absent, empty, a signed token with and without
\* the Bearer prefix, a token whose signature does not verify, a signed
\* token whose payload has no id, the bare prefix
NoToken == <<"null">>
Tokens ==
  { NoToken, <<>>, <<"good.jwt">>, <<"Bearer ", "good.jwt">>, <<"forged.jwt">>,
    <<"noid.jwt">>, <<"Bearer ", "noid.jwt">>, <<"Bearer ">> }

\* String.prototype.startsWith on pieces
StartsWith(text, prefix) ==
  /\ Len(text) >= Len(prefix)
  /\ \A k \in 1..Len(prefix) : text[k] = prefix[k]

HasBearerPrefix(token) == StartsWith(token, <<"Bearer ">>)

\* token.startsWith('Bearer ') ? token.slice(7) : token
RawToken(token) == IF HasBearerPrefix(token) THEN Tail(token) ELSE token

BearerToken_AlwaysPrefixed(token) == <<"Bearer ">> \o token

\* token.startsWith('Bearer ') ? token : `Bearer ${token}`
BearerToken(token) ==
  IF HasBearerPrefix(token) THEN token ELSE <<"Bearer ">> \o token

JwtThrows == [thrown |-> "JsonWebTokenError"]

\* jwtService.verify: the payload of a token this server signed
JwtVerify(raw) ==
  CASE raw = <<"good.jwt">> -> [id |-> "user-1"]
    [] raw = <<"noid.jwt">> -> [id |-> ""]
    [] OTHER -> JwtThrows

\* the path test of the upgrade handler
PathAccepted(url) == StartsWith(url, AGENT_WS_PATH)

TokenMissing(token) == token = NoToken \/ token = <<>>

Authenticates_AnyPayload(token) == JwtVerify(RawToken(token)) # JwtThrows

\* the try statement around jwtService.verify: a payload with a user id
Authenticates(token) ==
  /\ JwtVerify(RawToken(token)) # JwtThrows
  /\ JwtVerify(RawToken(token)).id # ""

NoBody == [kind |-> "none"]
NotConfiguredBody == [error |-> "Agent service is not configured."]
NoContext == [userId |-> "", bearerToken |-> <<>>]

\* what the upgrade handler does with one request
UpgradeOutcome(url, token) ==
  IF ~PathAccepted(url)
    THEN [status |-> 0, destroyed |-> TRUE, upgraded |-> FALSE,
          context |-> NoContext]
  ELSE IF TokenMissing(token)
    THEN [status |-> 401, destroyed |-> TRUE, upgraded |-> FALSE,
          context |-> NoContext]
  ELSE IF ~Authenticates(token)
    THEN [status |-> 401, destroyed |-> TRUE, upgraded |-> FALSE,
          context |-> NoContext]
  ELSE [status |-> 101, destroyed |-> FALSE, upgraded |-> TRUE,
        context |-> [userId |-> JwtVerify(RawToken(token)).id,
                     bearerToken |-> BearerToken(token)]]

Endpoints == {"auth/status", "chat", "chat/stream"}

\* what the agent answers a proxied request with
UpstreamAnswers ==
  { [status |-> 200, contentType |-> "application/json", body |-> "json"],
    [status |-> 200, contentType |-> "application/json", body |-> "not json"],
    [status |-> 200, contentType |-> "text/event-stream", body |-> "stream"],
    [status |-> 500, contentType |-> "text/plain", body |-> "failure"],
    [status |-> 500, contentType |-> "text/plain", body |-> ""] }

\* proxyToAgent after its fetch: the status of the agent and the decoded body
UnaryAnswer(answer) ==
  [status |-> answer.status,
   body |->
     IF answer.contentType = "application/json"
       THEN IF answer.body = "json"
              THEN [data |-> "json"]
              ELSE [error |-> "Invalid JSON response from agent"]
       ELSE [error |-> answer.body]]

\* proxyStreamToAgent after its fetch: the error of the agent, or the piped
\* stream
StreamAnswer(answer) ==
  IF answer.status # 200
    THEN [status |-> answer.status,
          body |-> [error |-> IF answer.body = ""
                                THEN "Agent request failed" ELSE answer.body]]
    ELSE [status |-> 200, body |-> [piped |-> answer.body]]

\* the isEnabled() test at the top of each controller method
IsServiceEnabled(enabled) == enabled

HttpEntry(endpoint, status, body, proxied) ==
  [endpoint |-> endpoint, url |-> <<>>, token |-> NoToken, status |-> status,
   body |-> body, destroyed |-> FALSE, upgraded |-> FALSE, upstream |-> proxied,
   context |-> NoContext]

UpgradeEntry(url, token) ==
  [endpoint |-> "upgrade", url |-> url, token |-> token,
   status |-> UpgradeOutcome(url, token).status, body |-> NoBody,
   destroyed |-> UpgradeOutcome(url, token).destroyed,
   upgraded |-> UpgradeOutcome(url, token).upgraded, upstream |-> FALSE,
   context |-> UpgradeOutcome(url, token).context]

GwIdle ==
  /\ gwLog = <<>>
  /\ httpPending = "none"
  /\ gwChats = {}

\* a controller method for an authenticated request, up to its first await
HttpRequest(endpoint) ==
  /\ httpPending = "none"
  /\ Len(gwLog) < MaxRequests
  /\ IF ~IsServiceEnabled(agentEnabled)
       THEN /\ gwLog' = Append(gwLog,
                               HttpEntry(endpoint, 503, NotConfiguredBody, FALSE))
            /\ UNCHANGED httpPending
       ELSE /\ httpPending' = endpoint
            /\ UNCHANGED gwLog
  /\ UNCHANGED gwChats
  /\ UNCHANGED notGwVars

\* the fetch of the pending controller call resolves
HttpUpstreamAnswers(answer) ==
  /\ httpPending # "none"
  /\ gwLog' =
       Append(gwLog,
              IF httpPending = "chat/stream"
                THEN HttpEntry(httpPending, StreamAnswer(answer).status,
                               StreamAnswer(answer).body, TRUE)
                ELSE HttpEntry(httpPending, UnaryAnswer(answer).status,
                               UnaryAnswer(answer).body, TRUE))
  /\ httpPending' = "none"
  /\ UNCHANGED gwChats
  /\ UNCHANGED notGwVars

\* the fetch of the pending controller call rejects: the method throws and
\* writes nothing itself
HttpUpstreamFails ==
  /\ httpPending # "none"
  /\ gwLog' = Append(gwLog, HttpEntry(httpPending, 0, NoBody, TRUE))
  /\ httpPending' = "none"
  /\ UNCHANGED gwChats
  /\ UNCHANGED notGwVars

\* the 'upgrade' handler of the HTTP server
UpgradeRequest(url, token) ==
  /\ Len(gwLog) < MaxRequests
  /\ gwLog' = Append(gwLog, UpgradeEntry(url, token))
  /\ UNCHANGED <<httpPending, gwChats>>
  /\ UNCHANGED notGwVars

\* the client of the socket of request s writes a chat frame: a message
\* handler exists only on a socket the connection handler was given
SocketChat(s) ==
  /\ s \in 1..Len(gwLog)
  /\ gwLog[s].endpoint = "upgrade"
  /\ gwChats' = IF gwLog[s].upgraded THEN gwChats \cup {s} ELSE gwChats
  /\ UNCHANGED <<gwLog, httpPending>>
  /\ UNCHANGED notGwVars

OrchIdle ==
  /\ anthropicApiKey = "test-api-key"
  /\ enableExternalMarketData = FALSE
  /\ toolRegistry = ConstructRegistry(enableExternalMarketData)
  /\ pc = "idle"
  /\ TurnLocalsInit

\* ------------------------------------------------- verifier function calls
ConfidenceArgs ==
  [hasErrors : BOOLEAN, isPriceDataMissing : BOOLEAN,
   toolsSucceeded : 0..MaxCount, toolsFailed : 0..MaxCount,
   hasHoldings : BOOLEAN]

NoInput == [call |-> "none"]
NoOutput == [kind |-> "none"]

CallIdle ==
  /\ callInput = NoInput
  /\ callPc = "idle"
  /\ callOutput = NoOutput
  /\ providerCalls = <<>>

ConfidenceIdle ==
  /\ confidenceArgs =
       [hasErrors |-> FALSE, isPriceDataMissing |-> FALSE, toolsSucceeded |-> 0,
        toolsFailed |-> 0, hasHoldings |-> TRUE]
  /\ confidenceResult = -1

FnIdle ==
  /\ ConfidenceIdle
  /\ CallIdle

\* computeConfidence runs on its argument object
ConfidenceCall ==
  /\ confidenceResult = -1
  /\ confidenceResult' =
       ComputeConfidence(confidenceArgs.hasErrors,
                         confidenceArgs.isPriceDataMissing,
                         confidenceArgs.toolsSucceeded,
                         confidenceArgs.toolsFailed,
                         confidenceArgs.hasHoldings)
  /\ UNCHANGED <<confidenceArgs, callVars>>
  /\ UNCHANGED notFnVars

\* the next call, with its argument object
ConfidenceNextCall(args) ==
  /\ confidenceResult # -1
  /\ confidenceArgs' = args
  /\ confidenceResult' = -1
  /\ UNCHANGED callVars
  /\ UNCHANGED notFnVars

InitConfidence ==
  /\ confidenceArgs \in ConfidenceArgs
  /\ confidenceResult = -1
  /\ CallIdle
  /\ agentEnabled = TRUE
  /\ WsIdle
  /\ OrchIdle
  /\ GwIdle
  /\ ChatsIdle
  /\ ClientIdle

NextConfidence ==
  \/ ConfidenceCall
  \/ \E args \in ConfidenceArgs : ConfidenceNextCall(args)

SpecConfidence == InitConfidence /\ [][NextConfidence]_vars

\* ------------------------------------------------------ the tool executors
\* null or undefined where a number is expected; the amounts drawn are never
\* negative
Null == -1

\* the fields of a position that the tools read; its symbol is its place in
\* Object.values(details.holdings)
Positions ==
  [quantity : {0, 1}, marketPrice : {Null, 0, 1},
   valueInBaseCurrency : {Null, 0, 1, 2}, investment : {Null, 1}]

\* what getDetails resolves with: a few positions of any kind, or many equal
\* ones
DetailsResults ==
  UNION {[1..n -> Positions] : n \in 0..MaxHoldings}
    \cup {[k \in 1..n |->
             [quantity |-> 1, marketPrice |-> 1, valueInBaseCurrency |-> 1,
              investment |-> 1]] : n \in 1..MaxEqualHoldings}

\* reduce with plus over the places lo..hi of a list, by halves
RECURSIVE SumBetween(_, _, _)
SumBetween(f, lo, hi) ==
  IF lo > hi THEN 0
  ELSE IF lo = hi THEN f[lo]
  ELSE LET mid == (lo + hi) \div 2
       IN  SumBetween(f, lo, mid) + SumBetween(f, mid + 1, hi)

\* x ?? 0
OrZero(x) == IF x = Null THEN 0 ELSE x

\* the filter of mapToSnapshot, with the places the positions came from
Retained(holdings) ==
  SelectSeq([k \in 1..Len(holdings) |-> [symbol |-> k, pos |-> holdings[k]]],
            LAMBDA h : h.pos.quantity > 0 \/ OrZero(h.pos.valueInBaseCurrency) > 0)

HasMissingPrice_PriceOnly(retained) ==
  \E k \in 1..Len(retained) : retained[k].pos.marketPrice \in {0, Null}

HasMissingPrice(retained) ==
  \E k \in 1..Len(retained) :
    \/ retained[k].pos.marketPrice \in {0, Null}
    \/ retained[k].pos.valueInBaseCurrency \in {0, Null}

\* h.value?.amount ?? h.costBasis?.amount ?? 0, where value and costBasis
\* are null for a falsy valueInBaseCurrency and a falsy investment
HoldingValue(pos) ==
  IF pos.valueInBaseCurrency \notin {0, Null} THEN pos.valueInBaseCurrency
  ELSE IF pos.investment \notin {0, Null} THEN pos.investment
  ELSE 0

RoundedPercent_Truncated(value, total) ==
  IF total > 0 THEN (value * 10000) \div total ELSE 0

\* Math.round(value / total * 100 * 100), the percent in hundredths
RoundedPercent(value, total) ==
  IF total > 0 THEN (2 * value * 10000 + total) \div (2 * total) ELSE 0

MapToSnapshot(holdings) ==
  LET retained == Retained(holdings)
      hasMissingPrice == HasMissingPrice(retained)
      values == [k \in 1..Len(retained) |-> HoldingValue(retained[k].pos)]
      totalValue == SumBetween(values, 1, Len(values))
      percents ==
        [k \in 1..Len(values) |-> RoundedPercent(values[k], totalValue)]
      valuationMethod == IF hasMissingPrice THEN "cost_basis" ELSE "market"
  IN  [kind |-> "snapshot", valuationMethod |-> valuationMethod,
       asOf |-> IF valuationMethod = "market" THEN "today" ELSE "null",
       isPriceDataMissing |-> hasMissingPrice, holdings |-> Len(retained),
       percentSum |-> SumBetween(percents, 1, Len(percents)),
       totalValue |-> totalValue,
       allocationBySymbol |->
         [k \in 1..Len(retained) |->
            [key |-> retained[k].symbol, value |-> values[k],
             percent |-> percents[k]]]]

GetDetailsCall_Write == "updateHoldings"

\* this.portfolioService.getDetails(...)
GetDetailsCall == "getDetails"

\* execute() of the snapshot tool up to its await of getDetails
SnapshotExecute ==
  /\ callPc = "idle"
  /\ callInput' = [call |-> SnapshotName]
  /\ providerCalls' = Append(providerCalls, GetDetailsCall)
  /\ callPc' = "awaiting"
  /\ UNCHANGED <<callOutput, confidenceArgs, confidenceResult>>
  /\ UNCHANGED notFnVars

\* getDetails resolves: mapToSnapshot
SnapshotDetailsResolve ==
  /\ callPc = "awaiting"
  /\ callInput.call = SnapshotName
  /\ \E details \in DetailsResults :
       /\ callInput' = [call |-> SnapshotName, details |-> details]
       /\ callOutput' = MapToSnapshot(details)
  /\ callPc' = "returned"
  /\ UNCHANGED <<providerCalls, confidenceArgs, confidenceResult>>
  /\ UNCHANGED notFnVars

\* input.changes: buys and sells of a symbol that may or may not be held, of
\* an amount below or above what is held
Changes ==
  UNION {[1..n -> [type : {"buy", "sell"}, symbol : {1, 2}, amount : {1, 3}]] :
           n \in 0..MaxChanges}

\* the portfolios the simulation is run on: priced positions held with a
\* value of 0, of 2 or of none, with or without cost basis
SimulateDetails ==
  { d \in UNION {[1..n -> Positions] : n \in 0..MaxHoldings} :
      \A k \in 1..Len(d) :
        /\ d[k].quantity = 1
        /\ d[k].marketPrice = 1
        /\ d[k].valueInBaseCurrency # 1 }

\* the portfolios a simulation of the given changes is run on: without
\* changes, every small portfolio the snapshot tool is run on
SimulateDetailsFor(changes) ==
  IF changes = <<>>
    THEN UNION {[1..n -> Positions] : n \in 0..MaxHoldings}
    ELSE SimulateDetails

\* valueMap.get(symbol) ?? new Big(0)
MapGet(map, symbol) ==
  IF \E k \in 1..Len(map) : map[k].symbol = symbol
    THEN (CHOOSE e \in {map[k] : k \in 1..Len(map)} : e.symbol = symbol).value
    ELSE 0

\* valueMap.set: an existing key keeps its place, a new key goes last
MapSet(map, symbol, value) ==
  IF \E k \in 1..Len(map) : map[k].symbol = symbol
    THEN [k \in 1..Len(map) |->
            IF map[k].symbol = symbol
              THEN [symbol |-> symbol, value |-> value] ELSE map[k]]
    ELSE Append(map, [symbol |-> symbol, value |-> value])

\* the map of current values: valueInBaseCurrency ?? investment ?? 0 of the
\* positions the filter retains
ValueMapOf(details) ==
  LET retained == Retained(details)
  IN  [k \in 1..Len(retained) |->
         [symbol |-> retained[k].symbol,
          value |->
            IF retained[k].pos.valueInBaseCurrency # Null
              THEN retained[k].pos.valueInBaseCurrency
              ELSE OrZero(retained[k].pos.investment)]]

ClampedTotal_LessAmount(newTotal, currentValue, changeAmount) == newTotal - changeAmount

\* newTotal.minus(currentValue) of a clamped sell
ClampedTotal(newTotal, currentValue, changeAmount) == newTotal - currentValue

\* the body of the loop over the changes
ApplyChange(st, change) ==
  LET currentValue == MapGet(st.valueMap, change.symbol)
      newValue == currentValue - change.amount
  IN  IF change.type = "buy"
        THEN [valueMap |->
                MapSet(st.valueMap, change.symbol, currentValue + change.amount),
              newTotal |-> st.newTotal + change.amount,
              notes |-> Append(st.notes, [note |-> "bought", change |-> change])]
      ELSE IF change.type = "sell"
        THEN IF newValue < 0
               THEN [valueMap |-> MapSet(st.valueMap, change.symbol, 0),
                     newTotal |->
                       ClampedTotal(st.newTotal, currentValue, change.amount),
                     notes |->
                       Append(st.notes,
                              [note |-> "clamped", change |-> change,
                               currentValue |-> currentValue])]
               ELSE [valueMap |-> MapSet(st.valueMap, change.symbol, newValue),
                     newTotal |-> st.newTotal - change.amount,
                     notes |-> st.notes]
      ELSE st

RECURSIVE ApplyChanges_LastFirst(_, _)
ApplyChanges_LastFirst(st, changes) ==
  IF changes = <<>> THEN st
  ELSE ApplyChanges_LastFirst(ApplyChange(st, changes[Len(changes)]),
                              SubSeq(changes, 1, Len(changes) - 1))

\* for (const change of changes)
RECURSIVE ApplyChanges(_, _)
ApplyChanges(st, changes) ==
  IF changes = <<>> THEN st
  ELSE ApplyChanges(ApplyChange(st, Head(changes)), Tail(changes))

\* Array.prototype.sort with (a, b) => b.percent - a.percent: stable
RECURSIVE SortByPercent(_)
SortByPercent(rows) ==
  IF rows = <<>> THEN <<>>
  ELSE LET sorted == SortByPercent(SubSeq(rows, 1, Len(rows) - 1))
           row == rows[Len(rows)]
           before == SelectSeq(sorted, LAMBDA r : r.percent >= row.percent)
           after == SelectSeq(sorted, LAMBDA r : r.percent < row.percent)
       IN  before \o <<row>> \o after

\* the synchronous part of execute() of the simulation tool
Simulate(changes, details) ==
  LET valueMap == ValueMapOf(details)
      values == [k \in 1..Len(valueMap) |-> valueMap[k].value]
      originalTotal == SumBetween(values, 1, Len(values))
      end ==
        ApplyChanges([valueMap |-> valueMap, newTotal |-> originalTotal,
                      notes |-> <<>>], changes)
      positive == SelectSeq(end.valueMap, LAMBDA e : e.value > 0)
      rows ==
        [k \in 1..Len(positive) |->
           [key |-> positive[k].symbol, value |-> positive[k].value,
            percent |-> RoundedPercent(positive[k].value, end.newTotal)]]
      isPriceDataMissing ==
        \E k \in 1..Len(details) : details[k].marketPrice \in {0, Null}
      valuationMethod == IF isPriceDataMissing THEN "cost_basis" ELSE "market"
  IN  [kind |-> "simulation", valuationMethod |-> valuationMethod,
       asOf |-> IF valuationMethod = "market" THEN "today" ELSE "null",
       originalTotalValue |-> originalTotal, newTotalValue |-> end.newTotal,
       newAllocationBySymbol |-> SortByPercent(rows), notes |-> end.notes]

\* execute() of the simulation tool up to its await of getDetails
SimulateExecute(changes) ==
  /\ callPc = "idle"
  /\ callInput' = [call |-> SimulateName, changes |-> changes]
  /\ providerCalls' = Append(providerCalls, GetDetailsCall)
  /\ callPc' = "awaiting"
  /\ UNCHANGED <<callOutput, confidenceArgs, confidenceResult>>
  /\ UNCHANGED notFnVars

\* getDetails resolves: the rest of execute() runs to its return
SimulateDetailsResolve ==
  /\ callPc = "awaiting"
  /\ callInput.call = SimulateName
  /\ \E details \in SimulateDetailsFor(callInput.changes) :
       /\ callInput' =
            [call |-> SimulateName, changes |-> callInput.changes,
             details |-> details]
       /\ callOutput' = Simulate(callInput.changes, details)
  /\ callPc' = "returned"
  /\ UNCHANGED <<providerCalls, confidenceArgs, confidenceResult>>
  /\ UNCHANGED notFnVars

\* the most points sampleChart is asked for
MAX_CHART_POINTS == 20

\* what getPerformance resolves with; a point of the chart is known by its
\* place in the chart
PerformanceResults ==
  [chart : {[i \in 1..n |-> i] : n \in 0..MaxChartLength},
   netPerformancePercentage : {Null, 5}, hasErrors : BOOLEAN]

SampleChart_KeepAll(chart, maxPoints) == chart

SampleChart(chart, maxPoints) ==
  IF Len(chart) <= maxPoints THEN chart
  ELSE LET step == (Len(chart) + maxPoints - 1) \div maxPoints
           places ==
             SelectSeq([i \in 1..Len(chart) |-> i],
                       LAMBDA i : (i - 1) % step = 0)
           sampled == [k \in 1..Len(places) |-> chart[places[k]]]
       IN  IF Len(chart) > 0 /\ sampled[Len(sampled)] # chart[Len(chart)]
             THEN Append(sampled, chart[Len(chart)])
             ELSE sampled

\* the result the try block returns
PerformanceOf(result) ==
  [kind |-> "performance",
   valuationMethod |-> IF result.hasErrors THEN "cost_basis" ELSE "market",
   asOf |-> "today",
   totalReturnPercent |-> result.netPerformancePercentage,
   timeSeries |-> SampleChart(result.chart, MAX_CHART_POINTS),
   reasonIfUnavailable |->
     IF result.hasErrors THEN [reason |-> "incomplete"] ELSE [reason |-> "null"]]

DegradedPerformance_ZeroReturn(errorMsg) ==
  [kind |-> "performance", valuationMethod |-> "cost_basis", asOf |-> "null",
   totalReturnPercent |-> 0, timeSeries |-> <<>>,
   reasonIfUnavailable |-> [reason |-> "unavailable", message |-> errorMsg]]

\* the result the catch block returns
DegradedPerformance(errorMsg) ==
  [kind |-> "performance", valuationMethod |-> "cost_basis", asOf |-> "null",
   totalReturnPercent |-> Null, timeSeries |-> <<>>,
   reasonIfUnavailable |-> [reason |-> "unavailable", message |-> errorMsg]]

\* execute() of the performance tool up to its await of getPerformance
PerformanceExecute ==
  /\ callPc = "idle"
  /\ callInput' = [call |-> PerformanceName]
  /\ providerCalls' = Append(providerCalls, "getPerformance")
  /\ callPc' = "awaiting"
  /\ UNCHANGED <<callOutput, confidenceArgs, confidenceResult>>
  /\ UNCHANGED notFnVars

\* getPerformance resolves
PerformanceResolve ==
  /\ callPc = "awaiting"
  /\ callInput.call = PerformanceName
  /\ \E result \in PerformanceResults :
       /\ callInput' = [call |-> PerformanceName, result |-> result]
       /\ callOutput' = PerformanceOf(result)
  /\ callPc' = "returned"
  /\ UNCHANGED <<providerCalls, confidenceArgs, confidenceResult>>
  /\ UNCHANGED notFnVars

\* getPerformance rejects with an Error: the catch block
PerformanceReject(errorMsg) ==
  /\ callPc = "awaiting"
  /\ callInput.call = PerformanceName
  /\ callInput' = [call |-> PerformanceName, failure |-> errorMsg]
  /\ callOutput' = DegradedPerformance(errorMsg)
  /\ callPc' = "returned"
  /\ UNCHANGED <<providerCalls, confidenceArgs, confidenceResult>>
  /\ UNCHANGED notFnVars

\* what input.symbols of a tool_use block may hold: nothing, an array of
\* symbols, or a value that is no array (the input is not validated against
\* the input_schema before execute is called)
SymbolsInputs ==
  { [type |-> "undefined", items |-> <<>>],
    [type |-> "array", items |-> <<>>],
    [type |-> "array", items |-> <<"AAPL">>],
    [type |-> "array", items |-> <<"AAPL", "MSFT">>],
    [type |-> "string", items |-> <<"AAPL">>] }

\* (input.symbols as string[]) ?? []
SymbolsOrEmpty(symbols) ==
  IF symbols.type = "undefined" THEN [type |-> "array", items |-> <<>>]
                                ELSE symbols

\* symbols.map(...) of an array
PlaceholderRows(items) ==
  [k \in 1..Len(items) |->
     [symbol |-> items[k], price |-> 0, source |-> "unavailable"]]

\* execute() of the market prices tool: no await; a row of price 0 per
\* symbol, or the TypeError of calling map on a value that has none
MarketPricesExecute(symbols) ==
  /\ callPc = "idle"
  /\ callInput' = [call |-> MarketPricesName, symbols |-> symbols]
  /\ IF SymbolsOrEmpty(symbols).type = "array"
       THEN /\ callOutput' =
                 [kind |-> "marketPrices",
                  rows |-> PlaceholderRows(SymbolsOrEmpty(symbols).items),
                  asOf |-> "today"]
            /\ callPc' = "returned"
       ELSE /\ callOutput' =
                 [kind |-> "error",
                  message |-> "symbols.map is not a function"]
            /\ callPc' = "raised"
  /\ UNCHANGED <<providerCalls, confidenceArgs, confidenceResult>>
  /\ UNCHANGED notFnVars

\* getDetails rejects under a tool that awaits it outside any try
DetailsReject(errorMsg) ==
  /\ callPc = "awaiting"
  /\ callInput.call \in {SnapshotName, SimulateName}
  /\ callOutput' = [kind |-> "error", message |-> errorMsg]
  /\ callPc' = "raised"
  /\ UNCHANGED <<callInput, providerCalls, confidenceArgs, confidenceResult>>
  /\ UNCHANGED notFnVars

\* the promise of execute() has settled; the next execution may begin
ToolNextCall ==
  /\ callPc \in {"returned", "raised"}
  /\ callInput.call \in {SnapshotName, SimulateName, PerformanceName,
                          MarketPricesName}
  /\ callInput' = NoInput
  /\ callOutput' = NoOutput
  /\ providerCalls' = <<>>
  /\ callPc' = "idle"
  /\ UNCHANGED <<confidenceArgs, confidenceResult>>
  /\ UNCHANGED notFnVars

\* ------------------------------------------------ verifyAgentResponse calls
\* the percent sums on both sides of either edge of the tolerance
VerifySnapshots ==
  { s \in [kind : {"snapshot"}, valuationMethod : {"market", "cost_basis"},
           asOf : {"today", "null"}, isPriceDataMissing : BOOLEAN,
           holdings : 0..MaxCount,
           percentSum : {0, 9899, 9900, 10000, 10100, 10101}] :
      /\ (s.holdings = 0) => (s.percentSum = 0)
      /\ (s.valuationMethod = "cost_basis") = s.isPriceDataMissing
      /\ (s.asOf = "null") = s.isPriceDataMissing }

\* an answer of up to MaxBlocks pieces, and toolResults with or without a
\* snapshot result
VerifyArgs ==
  LET texts == Texts \cup {"I recommend selling"}
  IN  [call : {"verifyAgentResponse"},
       answer : UNION {[1..n -> texts] : n \in 0..MaxBlocks},
       snapshot : VerifySnapshots \cup {NoResult}]

VerifyCall ==
  /\ callInput.call = "verifyAgentResponse"
  /\ callPc = "called"
  /\ callOutput' =
       VerifyAgentResponse(callInput.answer,
                           [n \in {SnapshotName} |-> callInput.snapshot])
  /\ callPc' = "returned"
  /\ UNCHANGED <<callInput, providerCalls, confidenceArgs, confidenceResult>>
  /\ UNCHANGED notFnVars

VerifyNextCall ==
  /\ callInput.call = "verifyAgentResponse"
  /\ callPc = "returned"
  /\ callInput' \in VerifyArgs
  /\ callPc' = "called"
  /\ callOutput' = NoOutput
  /\ UNCHANGED <<providerCalls, confidenceArgs, confidenceResult>>
  /\ UNCHANGED notFnVars

InitVerify ==
  /\ callInput \in VerifyArgs
  /\ callPc = "called"
  /\ callOutput = NoOutput
  /\ providerCalls = <<>>
  /\ ConfidenceIdle
  /\ agentEnabled = TRUE
  /\ WsIdle
  /\ OrchIdle
  /\ GwIdle
  /\ ChatsIdle
  /\ ClientIdle

NextVerify ==
  \/ VerifyCall
  \/ VerifyNextCall

SpecVerify == InitVerify /\ [][NextVerify]_vars

\* ---------------------------------------------------- a registry being filled
\* register(tool) on a registry of its own
RegisterCall(tool) ==
  /\ pc = "idle"
  /\ toolRegistry' = Register(toolRegistry, tool)
  /\ UNCHANGED <<anthropicApiKey, enableExternalMarketData, pc, call1Content,
                 toolUseBlocks, idx, toolTrace, toolResultBlocks, toolResults,
                 toolsSucceeded, toolsFailed, llmCalls, running, executed,
                 rejections, llmFailure, outcome>>
  /\ UNCHANGED notOrchVars

\* new ToolRegistry()
InitRegistry ==
  /\ toolRegistry = <<>>
  /\ anthropicApiKey = "test-api-key"
  /\ enableExternalMarketData = FALSE
  /\ pc = "idle"
  /\ TurnLocalsInit
  /\ agentEnabled = TRUE
  /\ WsIdle
  /\ GwIdle
  /\ ChatsIdle
  /\ ClientIdle
  /\ ConfidenceIdle
  /\ CallIdle

\* the tools a caller may register: under three of the names, each with one
\* of two definitions and one of two executor instances
RegisteredTools ==
  { [definition |-> [name |-> n, description |-> d],
     executor |-> [tool |-> n, instance |-> i],
     enabled |-> e] :
      n \in {SnapshotName, SimulateName, MarketPricesName},
      d \in {"DEFINITION", "other"},
      i \in {"constructor", "other"},
      e \in BOOLEAN }

NextRegistry ==
  \E tool \in RegisteredTools : RegisterCall(tool)

SpecRegistry == InitRegistry /\ [][NextRegistry]_vars

\* ------------------------------------------- requests built by the proxy
\* the authorization header of a request to the controller, or the token a
\* caller hands to the proxy: none, the empty string, a token without and
\* with the prefix, the bare prefix, a lower-case scheme, and a prefixed
\* value given the prefix once more
AuthHeaders ==
  { NoToken, <<>>, <<"abc">>, <<"Bearer ", "abc">>, <<"Bearer ">>,
    <<"bearer ", "abc">>, <<"Bearer ", "Bearer ", "abc">> }

UserIds == {"user-1", "user-123"}

\* AgentController.getBearerToken
GetBearerToken(auth) ==
  IF auth # NoToken /\ HasBearerPrefix(auth)
    THEN auth
    ELSE IF auth # NoToken THEN <<"Bearer ">> \o auth ELSE <<>>

\* the proxy method and the HTTP method behind each endpoint
ProxyMethodOf(endpoint) ==
  CASE endpoint = "auth/status" -> [call |-> "proxyToAgent", method |-> "GET"]
    [] endpoint = "chat" -> [call |-> "proxyToAgent", method |-> "POST"]
    [] endpoint = "chat/stream" ->
         [call |-> "proxyStreamToAgent", method |-> "POST"]
    [] OTHER -> [call |-> "proxyStreamToAgentEvents", method |-> "POST"]

ProxyCalls ==
  {"proxyToAgent", "proxyStreamToAgent", "proxyStreamToAgentEvents"}

\* the headers object of the three proxy methods
ProxyHeaders(ghostfolioUserId, bearerToken) ==
  [contentType |-> "application/json",
   authorization |-> BearerToken(bearerToken),
   xGhostfolioUserId |-> ghostfolioUserId]

\* a controller method of an authenticated request calls the proxy, or
\* answers 503 itself when the service is not enabled
ControllerCall(endpoint, auth, userId) ==
  /\ callPc = "idle"
  /\ callInput' = [call |-> ProxyMethodOf(endpoint).call,
                   method |-> ProxyMethodOf(endpoint).method,
                   ghostfolioUserId |-> userId,
                   bearerToken |-> GetBearerToken(auth)]
  /\ IF IsServiceEnabled(agentEnabled)
       THEN /\ callPc' = "called"
            /\ UNCHANGED callOutput
       ELSE /\ callPc' = "returned"
            /\ callOutput' = [kind |-> "response", status |-> 503]
  /\ UNCHANGED <<providerCalls, confidenceArgs, confidenceResult>>
  /\ UNCHANGED notFnVars

\* another caller of the service (the socket bridge, a unit test) calls a
\* proxy method with the token it holds
ServiceCall(endpoint, userId, bearerToken) ==
  /\ callPc = "idle"
  /\ callInput' = [call |-> ProxyMethodOf(endpoint).call,
                   method |-> ProxyMethodOf(endpoint).method,
                   ghostfolioUserId |-> userId,
                   bearerToken |-> bearerToken]
  /\ callPc' = "called"
  /\ UNCHANGED <<callOutput, providerCalls, confidenceArgs, confidenceResult>>
  /\ UNCHANGED notFnVars

\* a proxy method up to its fetch: 503 without a base url, else the request
ProxyFetch ==
  /\ callPc = "called"
  /\ callInput.call \in ProxyCalls
  /\ IF agentEnabled
       THEN /\ callOutput' =
                 [kind |-> "request", method |-> callInput.method,
                  headers |-> ProxyHeaders(callInput.ghostfolioUserId,
                                           callInput.bearerToken)]
            /\ callPc' = "awaiting"
       ELSE /\ callOutput' = [kind |-> "response", status |-> 503]
            /\ callPc' = "returned"
  /\ UNCHANGED <<callInput, providerCalls, confidenceArgs, confidenceResult>>
  /\ UNCHANGED notFnVars

\* the call is over; the next one may begin
ProxyNextCall ==
  /\ callPc \in {"awaiting", "returned"}
  /\ callInput.call \in ProxyCalls
  /\ callInput' = NoInput
  /\ callOutput' = NoOutput
  /\ callPc' = "idle"
  /\ UNCHANGED <<providerCalls, confidenceArgs, confidenceResult>>
  /\ UNCHANGED notFnVars

InitProxy ==
  /\ agentEnabled \in BOOLEAN
  /\ CallIdle
  /\ ConfidenceIdle
  /\ WsIdle
  /\ OrchIdle
  /\ GwIdle
  /\ ChatsIdle
  /\ ClientIdle

NextProxy ==
  \/ \E endpoint \in Endpoints, auth \in AuthHeaders, userId \in UserIds :
       ControllerCall(endpoint, auth, userId)
  \/ \E endpoint \in Endpoints \cup {"ws"}, userId \in UserIds,
        bearerToken \in AuthHeaders \ {NoToken} :
       ServiceCall(endpoint, userId, bearerToken)
  \/ ProxyFetch
  \/ ProxyNextCall

SpecProxy == InitProxy /\ [][NextProxy]_vars

\* -------------------------------------------------- the SSE event parser
\* most frames of an upstream body a stream is made of
MaxStreamFrames == 2

DataPrefix == <<"d", "a", "t", "a", ":">>
Separator == <<"\n", "\n">>

\* the frames of an upstream body, character by character: two events, an
\* event whose payload is no JSON text, an event of two data lines, a stray
\* line end, and an event with a comment line and blanks around its payload
StreamFrames ==
  { DataPrefix \o <<"1">> \o Separator,
    DataPrefix \o <<"2">> \o Separator,
    DataPrefix \o <<"{">> \o Separator,
    DataPrefix \o <<"1", "\n">> \o DataPrefix \o <<"2">> \o Separator,
    <<"\n">>,
    <<":", "\n">> \o DataPrefix \o <<" ", "1", "2", " ">> \o Separator }

RECURSIVE Concat(_)
Concat(texts) ==
  IF texts = <<>> THEN <<>> ELSE Head(texts) \o Concat(Tail(texts))

\* the bodies the agent may stream
Streams ==
  { Concat(frames) :
      frames \in UNION {[1..n -> StreamFrames] : n \in 0..MaxStreamFrames} }

\* buffer.indexOf('\n\n'), counted from 1; 0 when there is none
IndexOfSeparator(buffer) ==
  IF \E i \in 1..(Len(buffer) - 1) : buffer[i] = "\n" /\ buffer[i + 1] = "\n"
    THEN CHOOSE i \in 1..(Len(buffer) - 1) :
           /\ buffer[i] = "\n" /\ buffer[i + 1] = "\n"
           /\ \A j \in 1..(i - 1) : ~(buffer[j] = "\n" /\ buffer[j + 1] = "\n")
    ELSE 0

\* rawEvent.split('\n')
RECURSIVE SplitLines(_)
SplitLines(text) ==
  IF \E i \in 1..Len(text) : text[i] = "\n"
    THEN LET i == CHOOSE i \in 1..Len(text) :
                    text[i] = "\n" /\ \A j \in 1..(i - 1) : text[j] # "\n"
         IN  <<SubSeq(text, 1, i - 1)>>
               \o SplitLines(SubSeq(text, i + 1, Len(text)))
    ELSE <<text>>

\* String.prototype.trim
RECURSIVE Trim(_)
Trim(text) ==
  IF text # <<>> /\ Head(text) \in {" ", "\n"} THEN Trim(Tail(text))
  ELSE IF text # <<>> /\ text[Len(text)] \in {" ", "\n"}
    THEN Trim(SubSeq(text, 1, Len(text) - 1))
  ELSE text

\* lines.join('\n')
RECURSIVE JoinLines(_)
JoinLines(lines) ==
  IF lines = <<>> THEN <<>>
  ELSE IF Len(lines) = 1 THEN Head(lines)
  ELSE Head(lines) \o <<"\n">> \o JoinLines(Tail(lines))

\* the data lines of a raw event without their prefix, trimmed and joined
DataPayload(rawEvent) ==
  LET dataLines == SelectSeq(SplitLines(rawEvent),
                             LAMBDA line : StartsWith(line, DataPrefix))
  IN  JoinLines([k \in 1..Len(dataLines) |->
                   Trim(SubSeq(dataLines[k], 6, Len(dataLines[k])))])

\* JSON.parse of a payload in characters: a number of the digits 1 and 2
\* parses, a payload with anything else in it does not
JsonParseText(payload) ==
  IF payload # <<>> /\ \A k \in 1..Len(payload) : payload[k] \in {"1", "2"}
    THEN [value |-> payload]
    ELSE SyntaxError

RetainedTail_Dropped(buffer, separatorIndex) == <<>>

\* buffer.slice(separatorIndex + 2)
RetainedTail(buffer, separatorIndex) ==
  SubSeq(buffer, separatorIndex + 2, Len(buffer))

\* the inner while loop: every raw event up to the last separator of the
\* buffer is cut off it, and yielded when its payload parses
RECURSIVE DrainBuffer(_, _)
DrainBuffer(buffer, events) ==
  LET separatorIndex == IndexOfSeparator(buffer)
      dataPayload == DataPayload(SubSeq(buffer, 1, separatorIndex - 1))
  IN  IF separatorIndex = 0
        THEN [buffer |-> buffer, events |-> events]
        ELSE DrainBuffer(
               RetainedTail(buffer, separatorIndex),
               IF dataPayload # <<>> /\ JsonParseText(dataPayload) # SyntaxError
                 THEN Append(events, JsonParseText(dataPayload))
                 ELSE events)

\* proxyStreamToAgentEvents up to its first reader.read()
StreamCall(stream) ==
  /\ callPc = "idle"
  /\ callInput' = [call |-> "proxyStreamToAgentEvents", stream |-> stream]
  /\ callOutput' = [kind |-> "events", read |-> 0, buffer |-> <<>>,
                    events |-> <<>>]
  /\ callPc' = "awaiting"
  /\ UNCHANGED <<providerCalls, confidenceArgs, confidenceResult>>
  /\ UNCHANGED notFnVars

\* reader.read() resolves with some more characters of the body, and the
\* generator runs to its next read
ReadChunk ==
  /\ callPc = "awaiting"
  /\ callOutput.kind = "events"
  /\ \E n \in 1..(Len(callInput.stream) - callOutput.read) :
       LET chunk == SubSeq(callInput.stream, callOutput.read + 1,
                           callOutput.read + n)
           drained == DrainBuffer(callOutput.buffer \o chunk,
                                  callOutput.events)
       IN  callOutput' = [kind |-> "events", read |-> callOutput.read + n,
                          buffer |-> drained.buffer,
                          events |-> drained.events]
  /\ UNCHANGED <<callInput, callPc, providerCalls, confidenceArgs,
                 confidenceResult>>
  /\ UNCHANGED notFnVars

\* reader.read() resolves with done: the generator returns
ReadDone ==
  /\ callPc = "awaiting"
  /\ callOutput.kind = "events"
  /\ callOutput.read = Len(callInput.stream)
  /\ callPc' = "returned"
  /\ UNCHANGED <<callInput, callOutput, providerCalls, confidenceArgs,
                 confidenceResult>>
  /\ UNCHANGED notFnVars

StreamNextCall ==
  /\ callPc = "returned"
  /\ callOutput.kind = "events"
  /\ callInput' = NoInput
  /\ callOutput' = NoOutput
  /\ callPc' = "idle"
  /\ UNCHANGED <<providerCalls, confidenceArgs, confidenceResult>>
  /\ UNCHANGED notFnVars

InitParser ==
  /\ agentEnabled = TRUE
  /\ CallIdle
  /\ ConfidenceIdle
  /\ WsIdle
  /\ OrchIdle
  /\ GwIdle
  /\ ChatsIdle
  /\ ClientIdle

NextParser ==
  \/ \E stream \in Streams : StreamCall(stream)
  \/ ReadChunk
  \/ ReadDone
  \/ StreamNextCall

SpecParser == InitParser /\ [][NextParser]_vars

\* ------------------------------------- concurrent calls of chat()
\* what LLM call #1 may answer a concurrent call with: text, requests for
\* the snapshot tool and requests for a tool registered nowhere
ChatContents ==
  { content \in Contents :
      \A k \in 1..Len(content) :
        /\ content[k].type = "text" => content[k].text = "plain"
        /\ content[k].type = "tool_use" =>
             content[k].name \in {SnapshotName, "nonExistentTool"} }

\* what LLM call #2 may answer
AnswerContents ==
  { content \in ChatContents :
      \A k \in 1..Len(content) : content[k].type = "text" }

ActivationOf_Shared(c) == 1

\* the activation record that holds the locals of call c of chat(): its own
ActivationOf(c) == c

\* the for loop from its current place up to the next await: requests
\* without an executor get their failed row, the first request with an
\* executor is started, and past the last request LLM call #2 is issued
RECURSIVE RunToAwait(_)
RunToAwait(locals) ==
  IF LoopDone(locals.idx, locals.toolUseBlocks)
    THEN [locals EXCEPT !.pc = "awaitCall2"]
  ELSE IF GetExecutor(toolRegistry, locals.toolUseBlocks[locals.idx].name)
            = NoExecutor
    THEN RunToAwait(
           [locals EXCEPT
              !.toolsFailed = @ + 1,
              !.toolTrace =
                TracePush(@, [tool |-> locals.toolUseBlocks[locals.idx].name,
                              ok |-> FALSE,
                              error |-> UnknownToolError(
                                locals.toolUseBlocks[locals.idx].name)]),
              !.idx = @ + 1])
  ELSE [locals EXCEPT !.pc = "awaitTool"]

\* call c of chat() up to its first await
ChatBegin(c) ==
  /\ chats[ActivationOf(c)].pc = "idle"
  /\ chats[c].own.phase = "none"
  /\ chats' = [chats EXCEPT
                 ![ActivationOf(c)] =
                   [@ EXCEPT !.pc = "awaitCall1", !.toolTrace = <<>>,
                             !.toolResults = [n \in RequestNames |-> NoResult],
                             !.toolsSucceeded = 0, !.toolsFailed = 0],
                 ![c].own.phase = "begun"]
  /\ UNCHANGED notChatVars

\* LLM call #1 of call c resolves
ChatCall1Resolves(c, content) ==
  /\ chats[ActivationOf(c)].pc = "awaitCall1"
  /\ chats[c].own.phase = "begun"
  /\ LET locals == chats[ActivationOf(c)]
         blocks == ToolUseBlocks(content)
     IN  chats' =
           [chats EXCEPT
              ![ActivationOf(c)] =
                IF IsDirectAnswer(blocks)
                  THEN [locals EXCEPT
                          !.toolUseBlocks = blocks,
                          !.pc = "done",
                          !.outcome =
                            Returned(DirectResponse(content, locals.toolTrace,
                                                    locals.toolResults))]
                  ELSE RunToAwait([locals EXCEPT !.toolUseBlocks = blocks,
                                                 !.idx = 1]),
              ![c].own.phase = "planned",
              ![c].own.call1 = content]
  /\ UNCHANGED notChatVars

\* the executor call of call c resolves
ChatToolResolves(c, result) ==
  /\ chats[ActivationOf(c)].pc = "awaitTool"
  /\ chats[c].own.phase = "planned"
  /\ LET locals == chats[ActivationOf(c)]
         toolUse == locals.toolUseBlocks[locals.idx]
     IN  /\ result \in ResultsOf(toolUse.name)
         /\ chats' =
              [chats EXCEPT
                 ![ActivationOf(c)] =
                   RunToAwait(
                     [locals EXCEPT
                        !.toolResults = ResultsSet(@, toolUse.name, result),
                        !.toolsSucceeded = @ + 1,
                        !.toolTrace =
                          TracePush(@, [tool |-> toolUse.name, ok |-> TRUE,
                                        error |-> <<>>]),
                        !.idx = @ + 1]),
                 ![c].own.settled =
                   Append(@, [ok |-> TRUE, result |-> result,
                              error |-> <<>>])]
  /\ UNCHANGED notChatVars

\* the executor call of call c rejects
ChatToolRejects(c, errorMsg) ==
  /\ chats[ActivationOf(c)].pc = "awaitTool"
  /\ chats[c].own.phase = "planned"
  /\ LET locals == chats[ActivationOf(c)]
         toolUse == locals.toolUseBlocks[locals.idx]
     IN  chats' =
           [chats EXCEPT
              ![ActivationOf(c)] =
                RunToAwait(
                  [locals EXCEPT
                     !.toolsFailed = @ + 1,
                     !.toolTrace =
                       TracePush(@, [tool |-> toolUse.name, ok |-> FALSE,
                                     error |-> <<errorMsg>>]),
                     !.idx = @ + 1]),
              ![c].own.settled =
                Append(@, [ok |-> FALSE, result |-> NoResult,
                           error |-> <<errorMsg>>])]
  /\ UNCHANGED notChatVars

\* LLM call #2 of call c resolves: the response is assembled
ChatCall2Resolves(c, content) ==
  /\ chats[ActivationOf(c)].pc = "awaitCall2"
  /\ chats[c].own.phase = "planned"
  /\ LET locals == chats[ActivationOf(c)]
     IN  chats' =
           [chats EXCEPT
              ![ActivationOf(c)] =
                [locals EXCEPT
                   !.pc = "done",
                   !.outcome =
                     Returned(FinalResponse(content, locals.toolTrace,
                                            locals.toolResults,
                                            locals.toolsSucceeded,
                                            locals.toolsFailed))],
              ![c].own.phase = "answered",
              ![c].own.call2 = content]
  /\ UNCHANGED notChatVars

\* an LLM call of call c rejects: the catch block
ChatLlmRejects(c, errorMsg) ==
  /\ chats[ActivationOf(c)].pc \in {"awaitCall1", "awaitCall2"}
  /\ chats[c].own.phase \in {"begun", "planned"}
  /\ LET locals == chats[ActivationOf(c)]
     IN  chats' =
           [chats EXCEPT
              ![ActivationOf(c)] =
                [locals EXCEPT
                   !.pc = CatchBlock(errorMsg, locals.toolTrace).pc,
                   !.outcome = CatchBlock(errorMsg, locals.toolTrace).outcome],
              ![c].own.phase = "failed"]
  /\ UNCHANGED notChatVars

InitChats ==
  /\ ChatsIdle
  /\ ClientIdle
  /\ OrchIdle
  /\ agentEnabled = TRUE
  /\ WsIdle
  /\ GwIdle
  /\ FnIdle

NextChats ==
  \E c \in 1..MaxChats :
    \/ ChatBegin(c)
    \/ \E content \in ChatContents : ChatCall1Resolves(c, content)
    \/ \E result \in SnapshotResults : ChatToolResolves(c, result)
    \/ \E errorMsg \in ErrMsgs : ChatToolRejects(c, errorMsg)
    \/ \E content \in AnswerContents : ChatCall2Resolves(c, content)
    \/ \E errorMsg \in LLMErrMsgs : ChatLlmRejects(c, errorMsg)

SpecChats == InitChats /\ [][NextChats]_vars

\* ------------------------------------------------ the chat page's client
\* dispatchMessage on the WebSocket path: the request gets the next id, its
\* handler becomes the socket's message handler, and the chat frame is sent
DispatchMessage(this, message) ==
  LET requestId == this.requestCounter + 1
  IN  [this EXCEPT
         !.isSending = TRUE,
         !.requestCounter = requestId,
         !.activeRequestId = requestId,
         !.wsMessageHandler = requestId,
         !.sent = Append(@, [type |-> "chat", request |-> requestId,
                             message |-> message])]

FlushQueue(this) ==
  IF this.isSending \/ this.queuedMessages = <<>>
    THEN this
    ELSE DispatchMessage([this EXCEPT !.queuedMessages = Tail(@)],
                         Head(this.queuedMessages))

\* enqueueMessage(message, prepend)
EnqueueMessage(this, message, prepend) ==
  [this EXCEPT !.queuedMessages = IF prepend THEN <<message>> \o @
                                             ELSE Append(@, message)]

\* finishStreamRequest(requestId)
FinishStreamRequest(this, requestId) ==
  IF this.activeRequestId = requestId
    THEN FlushQueue([this EXCEPT !.isSending = FALSE, !.activeRequestId = 0])
    ELSE this

\* the frames a handler of the page has sent, put on the socket
FramesSent(before, after) ==
  SubSeq(after.sent, Len(before.sent) + 1, Len(after.sent))

\* the user sends the draft: queued while a request is being sent
SendMessage ==
  /\ page.typed < MaxSends
  /\ LET message == page.typed + 1
         typed == [page EXCEPT !.typed = message]
         after == IF page.isSending
                    THEN EnqueueMessage(typed, message, FALSE)
                    ELSE DispatchMessage(typed, message)
     IN  /\ page' = after
         /\ toBridge' = toBridge \o FramesSent(page, after)
  /\ UNCHANGED <<toClient, bridgeTurns, pageLog>>
  /\ UNCHANGED notClientVars

\* the user interjects the draft: it goes to the head of the queue, the
\* request being sent is given up, and the queue is flushed
InterjectMessage ==
  /\ page.typed < MaxSends
  /\ LET message == page.typed + 1
         queued == EnqueueMessage([page EXCEPT !.typed = message], message,
                                  TRUE)
         after == FlushQueue(IF page.isSending
                               THEN [queued EXCEPT !.activeRequestId = 0,
                                                   !.isSending = FALSE]
                               ELSE queued)
     IN  /\ page' = after
         /\ toBridge' = toBridge \o FramesSent(page, after)
  /\ UNCHANGED <<toClient, bridgeTurns, pageLog>>
  /\ UNCHANGED notClientVars

\* the user cancels the request being sent: a cancel frame, no handler, and
\* the queue is flushed
CancelMessage ==
  /\ page.isSending
  /\ LET after ==
           FlushQueue([page EXCEPT
                         !.sent = Append(@, [type |-> "cancel",
                                             request |-> page.activeRequestId,
                                             message |-> 0]),
                         !.wsMessageHandler = 0,
                         !.activeRequestId = 0,
                         !.isSending = FALSE])
     IN  /\ page' = after
         /\ toBridge' = toBridge \o FramesSent(page, after)
  /\ UNCHANGED <<toClient, bridgeTurns, pageLog>>
  /\ UNCHANGED notClientVars

\* socket.onmessage: the event goes to the handler the page holds now; done
\* and error clear the handler and finish the handler's request
SocketOnMessage ==
  /\ toClient # <<>>
  /\ LET event == Head(toClient)
         handler == page.wsMessageHandler
         after ==
           IF handler = 0 THEN page
           ELSE IF event.type \in {"done", "error"}
             THEN FinishStreamRequest([page EXCEPT !.wsMessageHandler = 0],
                                      handler)
           ELSE page
     IN  /\ page' = after
         /\ toBridge' = toBridge \o FramesSent(page, after)
         /\ pageLog' =
              [received |-> pageLog.received \cup {event},
               handled |->
                 IF handler = 0
                   THEN pageLog.handled
                   ELSE pageLog.handled
                          \cup {[request |-> handler, turn |-> event.turn,
                                 type |-> event.type]}]
  /\ toClient' = Tail(toClient)
  /\ UNCHANGED bridgeTurns
  /\ UNCHANGED notClientVars

\* the turn the bridge's abortController belongs to: the last one begun
LastTurnBegun ==
  IF \E r \in 1..MaxSends : bridgeTurns[r] # "none"
    THEN CHOOSE r \in 1..MaxSends :
           /\ bridgeTurns[r] # "none"
           /\ \A q \in 1..MaxSends : bridgeTurns[q] # "none" => q <= r
    ELSE 0

\* the bridge takes the next frame of the socket: a chat frame begins a
\* turn, a cancel frame aborts the turn of the current abortController
BridgeOnMessage ==
  /\ toBridge # <<>>
  /\ LET frame == Head(toBridge)
     IN  bridgeTurns' =
           IF frame.type = "chat"
             THEN [bridgeTurns EXCEPT ![frame.request] = "streaming"]
           ELSE IF LastTurnBegun # 0
                     /\ bridgeTurns[LastTurnBegun] \in {"streaming", "streamed"}
             THEN [bridgeTurns EXCEPT ![LastTurnBegun] = "ended"]
           ELSE bridgeTurns
  /\ toBridge' = Tail(toBridge)
  /\ UNCHANGED <<page, toClient, pageLog>>
  /\ UNCHANGED notClientVars

\* the bridge forwards an event of a turn in flight: one progress event at
\* most, then done or error, which ends the turn
BridgeForwards(r, type) ==
  /\ bridgeTurns[r] \in {"streaming", "streamed"}
  /\ type = "tool_start" => bridgeTurns[r] = "streaming"
  /\ bridgeTurns' =
       [bridgeTurns EXCEPT ![r] = IF type = "tool_start" THEN "streamed"
                                                          ELSE "ended"]
  /\ toClient' = Append(toClient, [turn |-> r, type |-> type])
  /\ UNCHANGED <<page, toBridge, pageLog>>
  /\ UNCHANGED notClientVars

InitClient ==
  /\ ClientIdle
  /\ ChatsIdle
  /\ OrchIdle
  /\ agentEnabled = TRUE
  /\ WsIdle
  /\ GwIdle
  /\ FnIdle

NextClient ==
  \/ SendMessage
  \/ InterjectMessage
  \/ CancelMessage
  \/ SocketOnMessage
  \/ BridgeOnMessage
  \/ \E r \in 1..MaxSends, type \in {"tool_start", "done", "error"} :
       BridgeForwards(r, type)

SpecClient == InitClient /\ [][NextClient]_vars

InitTools ==
  /\ CallIdle
  /\ ConfidenceIdle
  /\ agentEnabled = TRUE
  /\ WsIdle
  /\ OrchIdle
  /\ GwIdle
  /\ ChatsIdle
  /\ ClientIdle

NextTools ==
  \/ SnapshotExecute
  \/ SnapshotDetailsResolve
  \/ \E changes \in Changes : SimulateExecute(changes)
  \/ SimulateDetailsResolve
  \/ \E errorMsg \in ErrMsgs : DetailsReject(errorMsg)
  \/ PerformanceExecute
  \/ PerformanceResolve
  \/ \E errorMsg \in ErrMsgs : PerformanceReject(errorMsg)
  \/ \E symbols \in SymbolsInputs : MarketPricesExecute(symbols)
  \/ ToolNextCall

SpecTools == InitTools /\ [][NextTools]_vars

InitWS ==
  /\ agentEnabled \in BOOLEAN
  /\ WsIdle
  /\ OrchIdle
  /\ GwIdle
  /\ ChatsIdle
  /\ ClientIdle
  /\ FnIdle

NextWS ==
  \/ WsChatMessage
  \/ WsCancelMessage
  \/ \E shape \in OtherShapes : WsOtherMessage(shape)
  \/ WsClose
  \/ \E t \in Turns, result \in FetchResults : FetchSettle(t, result)
  \/ \E t \in Turns : TextSettle(t)
  \/ \E t \in Turns, result \in ReadResults : ReadSettle(t, result)

SpecWS == InitWS /\ [][NextWS]_vars

Init ==
  /\ OrchInit
  /\ agentEnabled = TRUE
  /\ WsIdle
  /\ GwIdle
  /\ ChatsIdle
  /\ ClientIdle
  /\ FnIdle

InitGateway ==
  /\ agentEnabled \in BOOLEAN
  /\ WsIdle
  /\ OrchIdle
  /\ GwIdle
  /\ ChatsIdle
  /\ ClientIdle
  /\ FnIdle

NextGateway ==
  \/ \E endpoint \in Endpoints : HttpRequest(endpoint)
  \/ \E answer \in UpstreamAnswers : HttpUpstreamAnswers(answer)
  \/ HttpUpstreamFails
  \/ \E url \in Urls, token \in Tokens : UpgradeRequest(url, token)
  \/ \E s \in 1..MaxRequests : SocketChat(s)

SpecGateway == InitGateway /\ [][NextGateway]_vars

TurnStep ==
  \/ ChatStart
  \/ \E content \in Contents : Call1Resolve(content)
  \/ \E errorMsg \in LLMErrMsgs : Call1Reject(errorMsg)
  \/ ToolUnknown
  \/ ToolExecStart
  \/ \E result \in SnapshotResults \cup {[kind |-> n] : n \in RequestNames} :
       ToolExecResolve(result)
  \/ \E errorMsg \in ErrMsgs : ToolExecReject(errorMsg)
  \/ IssueCall2
  \/ \E content \in Contents : Call2Resolve(content)
  \/ \E errorMsg \in LLMErrMsgs : Call2Reject(errorMsg)

Next ==
  \/ TurnStep
  \/ NextRequest

Spec == Init /\ [][Next]_vars


\* the event loop runs every ready continuation, and the promises of the
\* provider and of the executors settle
FairSpec == Init /\ [][Next]_vars /\ WF_vars(TurnStep)

\* ------------------------------------------------ orchestrator properties
\* the tool names call #1 asked for, read off the content block by block
RECURSIVE RequestedNames(_)
RequestedNames(content) ==
  IF content = <<>> THEN <<>>
  ELSE (IF Head(content).type = "tool_use"
          THEN <<Head(content).name>> ELSE <<>>)
         \o RequestedNames(Tail(content))

\* the text pieces of a content, read off block by block
RECURSIVE TextPieces(_)
TextPieces(content) ==
  IF content = <<>> THEN <<>>
  ELSE (IF Head(content).type = "text"
          THEN <<Head(content).text>> ELSE <<>>)
         \o TextPieces(Tail(content))

Call2Issued == \E k \in 1..Len(llmCalls) : llmCalls[k].call = 2

WasExecuted(i) == \E k \in 1..Len(executed) : executed[k] = i

\* the name is registered nowhere, or its registration is disabled
UnknownOrDisabled(name) ==
  ~\E k \in 1..Len(toolRegistry) :
     toolRegistry[k].definition.name = name /\ toolRegistry[k].enabled

\* C1: within a turn at most one tool execution is in progress at any time,
\* and once LLM call #2 has been issued every tool that call #1 requested
\* has settled (it has its trace row and is no longer running).
C1_SequentialToolsBeforeCall2 ==
  /\ Cardinality(running) <= 1
  /\ Call2Issued =>
       /\ running = {}
       /\ Len(toolTrace) = Len(RequestedNames(call1Content))
       /\ \A i \in 1..Len(toolUseBlocks) :
            UnknownOrDisabled(toolUseBlocks[i].name) \/ WasExecuted(i)

C1_Witness ==
  /\ Call2Issued
  /\ Len(toolUseBlocks) >= 2
  /\ Len(executed) >= 2

\* C2: the returned toolTrace has exactly one row per tool invocation that
\* call #1 requested, and the i-th row names the i-th requested tool,
\* whichever invocations succeeded or failed.
C2_TraceFollowsRequestOrder ==
  outcome.kind = "returned" =>
    LET trace == outcome.response.toolTrace
        requested == RequestedNames(call1Content)
    IN  /\ Len(trace) = Len(requested)
        /\ \A i \in 1..Len(trace) : trace[i].tool = requested[i]

C2_Witness ==
  /\ outcome.kind = "returned"
  /\ Len(outcome.response.toolTrace) = 2
  /\ ~outcome.response.toolTrace[1].ok
  /\ outcome.response.toolTrace[2].ok
  /\ outcome.response.toolTrace[1].tool # outcome.response.toolTrace[2].tool

\* C3: when an executor raises, its trace row is ok=false with the error's
\* message, every later requested tool is still executed, call #2 is still
\* issued, and chat() returns a response with a non-empty answer.
C3_ExecutorFailureIsAbsorbed ==
  \A r \in rejections :
    /\ r.at <= Len(toolTrace)
    /\ ~toolTrace[r.at].ok
    /\ toolTrace[r.at].error = <<r.message>>
    /\ pc = "done" =>
         /\ \A j \in (r.at + 1)..Len(toolUseBlocks) :
              UnknownOrDisabled(toolUseBlocks[j].name) \/ WasExecuted(j)
         /\ Call2Issued
         /\ outcome.kind = "returned"
         /\ outcome.response.answer # <<>>

\* C3, the part the code keeps: the failed row, the rest of the batch, call
\* #2 and a returned response whose answer is the text of call #2 or the
\* error text.
C3_FailureAbsorbedAnswerIsCall2Text ==
  \A r \in rejections :
    /\ r.at <= Len(toolTrace)
    /\ ~toolTrace[r.at].ok
    /\ toolTrace[r.at].error = <<r.message>>
    /\ pc = "done" =>
         /\ \A j \in (r.at + 1)..Len(toolUseBlocks) :
              UnknownOrDisabled(toolUseBlocks[j].name) \/ WasExecuted(j)
         /\ Call2Issued
         /\ outcome.kind = "returned"

\* C4: a request for a tool that is not registered, or registered but
\* disabled, gets a failed trace row whose error starts with "Unknown or
\* disabled tool", and no executor is invoked for it.
C4_UnknownToolFailsWithoutExecutor ==
  \A i \in 1..Len(toolUseBlocks) :
    UnknownOrDisabled(toolUseBlocks[i].name) =>
      /\ ~WasExecuted(i)
      /\ (idx > i \/ pc \in {"awaitCall2", "done"}) =>
           /\ i <= Len(toolTrace)
           /\ toolTrace[i].tool = toolUseBlocks[i].name
           /\ ~toolTrace[i].ok
           /\ Head(toolTrace[i].error) = "Unknown or disabled tool"

C4_Witness ==
  /\ ~enableExternalMarketData
  /\ pc = "done"
  /\ Len(toolTrace) = 2
  /\ toolTrace[1].tool = MarketPricesName
  /\ toolTrace[2].tool = "nonExistentTool"

\* C5: when the provider fails on call #1 or on call #2, chat() returns a
\* response with confidence 0.1, a non-empty explanatory answer, no
\* warnings, and the trace rows recorded before the failure.
C5_LLMFailureGivesErrorResponse ==
  llmFailure # 0 =>
    /\ outcome.kind = "returned"
    /\ outcome.response.confidence = 1
    /\ outcome.response.answer # <<>>
    /\ Head(outcome.response.answer) =
         "I encountered an error while processing your request. Please try again."
    /\ outcome.response.warnings = <<>>
    /\ outcome.response.toolTrace = toolTrace
    /\ Len(toolTrace) = Len(RequestedNames(call1Content))

C5_Witness ==
  /\ llmFailure = 2
  /\ outcome.kind = "returned"
  /\ Len(outcome.response.toolTrace) = 2

\* C6: without a provider credential chat() returns confidence 0.1 and the
\* "not currently configured" answer, and the turn calls the provider zero
\* times and executes no tool.
C6_UnconfiguredShortCircuits ==
  anthropicApiKey = "" =>
    /\ llmCalls = <<>>
    /\ executed = <<>>
    /\ pc \in {"idle", "done"}
    /\ pc = "done" =>
         /\ outcome.kind = "returned"
         /\ outcome.response.confidence = 1
         /\ outcome.response.answer = NotConfiguredMessage

C6_Witness ==
  /\ anthropicApiKey = ""
  /\ pc = "done"
  /\ outcome.kind = "returned"

\* C7: when the response of call #1 holds no tool_use block, the turn
\* executes no tool, makes exactly one LLM call, answers with the text of
\* that call and returns an empty toolTrace.
C7_DirectAnswerPath ==
  ( /\ pc = "done"
    /\ llmCalls # <<>>
    /\ llmFailure # 1
    /\ RequestedNames(call1Content) = <<>> ) =>
      /\ executed = <<>>
      /\ Len(llmCalls) = 1
      /\ outcome.kind = "returned"
      /\ outcome.response.answer = TextPieces(call1Content)
      /\ outcome.response.toolTrace = <<>>

C7_Witness ==
  /\ pc = "done"
  /\ Len(llmCalls) = 1
  /\ llmFailure = 0
  /\ Len(call1Content) = 2
  /\ outcome.kind = "returned"
  /\ Len(outcome.response.answer) = 2

\* C8: a turn makes at most two provider calls, call #1 and then call #2,
\* each once; a failed call ends the turn with a response and is not
\* retried; and every turn that started reaches its response.
C8_AtMostTwoCallsAndTermination ==
  /\ [](/\ Len(llmCalls) <= 2
        /\ \A k \in 1..Len(llmCalls) : llmCalls[k].call = k
        /\ llmFailure # 0 =>
             /\ pc = "done"
             /\ Len(llmCalls) = llmFailure
             /\ outcome.kind = "returned")
  /\ (pc # "done") ~> (pc = "done" /\ outcome.kind = "returned")

C8_Witness ==
  /\ llmFailure = 2
  /\ pc = "done"
  /\ Len(llmCalls) = 2


\* ---------------------------------------------------- bridge properties
\* C9: once a cancel message has been handled while one turn was in flight
\* on the socket, the upstream request of that turn is aborted and the turn
\* sends the client no further event, not even an error event.
C9_CancelAbortsAndSilencesTurn ==
  \A t \in Turns :
    cancelledAt[t] # -1 => aborted[t] /\ SentBy(t) = cancelledAt[t]

\* C10: a turn started by a chat message that came right after a cancel,
\* also before the cancelled turn's cleanup has run, can still be aborted:
\* while it is in flight the connection's abortController is its own, so a
\* later cancel or the close of the socket reaches it.
C10_ChatAfterCancelStaysAbortable ==
  \A t \in afterCancel :
    (TurnActive(t) /\ ~aborted[t] /\ ~clientOverlapped) => abortController = t

\* C11: once the socket has closed, every turn of the socket whose upstream
\* request is still in flight has had its request aborted.
C11_CloseAbortsEveryInFlight ==
  wsReadyState = "CLOSED" => \A t \in Turns : TurnActive(t) => aborted[t]

\* the decoded events of one chunk of turn t, from place k on
RECURSIVE EventsFrom(_, _, _)
EventsFrom(chunk, frames, k) ==
  IF k > Len(frames) THEN <<>>
  ELSE (IF JsonParse(frames[k]) = SyntaxError
          THEN <<>>
          ELSE <<[chunk |-> chunk, frame |-> k, value |-> JsonParse(frames[k])]>>)
         \o EventsFrom(chunk, frames, k + 1)

\* the decoded events of the first n chunks, in arrival order
RECURSIVE DecodedUpTo(_, _)
DecodedUpTo(chunks, n) ==
  IF n = 0 THEN <<>>
  ELSE DecodedUpTo(chunks, n - 1) \o EventsFrom(n, chunks[n], 1)

\* what the client decodes of the events the socket was sent for turn t
ClientDecoded(t) ==
  LET sent == SelectSeq(wsSent, LAMBDA e : e.turn = t /\ e.type = "event")
  IN  [k \in 1..Len(sent) |->
         [chunk |-> sent[k].chunk, frame |-> sent[k].frame,
          value |-> JsonParse(sent[k].data)]]

IsPrefix(a, b) == Len(a) <= Len(b) /\ \A k \in 1..Len(a) : a[k] = b[k]

\* C12: for every chat turn, what the client receives of the turn's stream
\* is the decoded upstream events in arrival order, each once and with the
\* value upstream sent; a payload that is not JSON is left out and the
\* events after it are still there.  While the socket is open nothing of
\* what the turn has read is missing.
C12_EventsForwardedInOrder ==
  \A t \in Turns :
    LET expected == DecodedUpTo(upstream[t], Len(upstream[t]))
    IN  /\ IsPrefix(ClientDecoded(t), expected)
        /\ wsReadyState = "OPEN" => ClientDecoded(t) = expected

C12_Witness ==
  \E t \in Turns :
    /\ wsReadyState = "OPEN"
    /\ upstream[t] = <<<<CutPayload, TokenPayload>>, <<TokenPayload>>>>
    /\ Len(ClientDecoded(t)) = 2

\* C13: a cancel message handled while no turn is in flight, or right
\* after another cancel, changes nothing of the socket: nothing is sent, no
\* request is started or aborted, the connection stays as it was.
C13_IdleCancelIsNoOp ==
  [][(WsCancelMessage
        /\ ((\A t \in Turns : ~TurnActive(t)) \/ lastInbound = "cancel"))
       => UNCHANGED <<wsReadyState, abortController, aborted, turnPc,
                      chunksRead, upstream, wsSent, inbound>>]_vars

C13_Witness ==
  /\ wsReadyState = "OPEN"
  /\ inbound.chat = 1
  /\ turnPc[1] = "done"
  /\ ~aborted[1]
  /\ lastInbound = "cancel"

\* C14: the handling of a message that is neither a well-formed chat
\* message nor a cancel sends exactly one error reply, leaves the
\* connection open and starts no upstream request.
C14_OtherMessageGetsOneError ==
  [][\A shape \in OtherShapes :
       WsOtherMessage(shape) =>
         /\ Len(wsSent') = Len(wsSent) + 1
         /\ wsSent'[Len(wsSent')].type = "error"
         /\ wsReadyState' = "OPEN"
         /\ UNCHANGED <<turnPc, abortController, aborted>>]_vars

\* ------------------------------------------ endpoint and upgrade properties
\* C15: an upgrade request on the agent path whose token is missing, does
\* not verify, or verifies to a payload without a user id is answered 401
\* and its socket is destroyed: it is not upgraded, no connection is made
\* for it and no chat message of that socket reaches a message handler.
C15_BadTokenGets401 ==
  \A s \in 1..Len(gwLog) :
    ( /\ gwLog[s].endpoint = "upgrade"
      /\ StartsWith(gwLog[s].url, AGENT_WS_PATH)
      /\ \/ gwLog[s].token \in {NoToken, <<>>}
         \/ JwtVerify(RawToken(gwLog[s].token)) = JwtThrows
         \/ JwtVerify(RawToken(gwLog[s].token)) = [id |-> ""] ) =>
      /\ gwLog[s].status = 401
      /\ gwLog[s].destroyed
      /\ ~gwLog[s].upgraded
      /\ gwLog[s].context = NoContext
      /\ s \notin gwChats

C15_Witness ==
  /\ Len(gwLog) = 2
  /\ gwLog[1].endpoint = "upgrade"
  /\ gwLog[1].url = AGENT_WS_PATH
  /\ gwLog[1].token = <<"Bearer ", "noid.jwt">>
  /\ gwLog[1].status = 401
  /\ gwLog[2].endpoint = "upgrade"
  /\ gwLog[2].url = AGENT_WS_PATH
  /\ gwLog[2].token = NoToken
  /\ gwLog[2].status = 401

\* C16: a request is upgraded only when its path is the agent WebSocket
\* path itself; on any other path the socket is destroyed and never
\* upgraded.
C16_UpgradeOnlyOnExactPath ==
  \A s \in 1..Len(gwLog) :
    gwLog[s].endpoint = "upgrade" =>
      /\ gwLog[s].upgraded => gwLog[s].url = AGENT_WS_PATH
      /\ gwLog[s].url # AGENT_WS_PATH => gwLog[s].destroyed

\* C17: while the agent URL is not configured, every authenticated request,
\* on the unary endpoints, on the SSE endpoint and on the upgrade path, is
\* answered 503 with an error body, and no upstream request is made for it.
C17_NotConfiguredAnswers503 ==
  ~agentEnabled =>
    \A s \in 1..Len(gwLog) :
      ( \/ gwLog[s].endpoint \in Endpoints
        \/ /\ gwLog[s].url = AGENT_WS_PATH
           /\ gwLog[s].token \in {<<"good.jwt">>, <<"Bearer ", "good.jwt">>} ) =>
        /\ gwLog[s].status = 503
        /\ gwLog[s].body = NotConfiguredBody
        /\ ~gwLog[s].upstream
        /\ ~gwLog[s].upgraded

\* C17, the part the code keeps: the unary endpoints and the SSE endpoint
C17_HttpEndpointsAnswer503 ==
  ~agentEnabled =>
    \A s \in 1..Len(gwLog) :
      gwLog[s].endpoint \in Endpoints =>
        /\ gwLog[s].status = 503
        /\ gwLog[s].body = NotConfiguredBody
        /\ ~gwLog[s].upstream

\* ---------------------------------------------------- confidence properties
\* the turn is over and its answer is text of the LLM
LlmAnswered ==
  /\ pc = "done"
  /\ outcome.kind = "returned"
  /\ llmCalls # <<>>
  /\ llmFailure = 0

\* the confidence of the turn before any verifier penalty
TurnBaseline ==
  LET snap == toolResults[SnapshotName]
  IN  IF RequestedNames(call1Content) = <<>>
        THEN ComputeConfidence(FALSE, FALSE, 0, 0, TRUE)
        ELSE ComputeConfidence(snap = NoResult /\ toolsFailed > 0,
                               snap # NoResult /\ snap.isPriceDataMissing,
                               toolsSucceeded, toolsFailed,
                               snap # NoResult /\ snap.holdings > 0)

\* the penalties the verifier gives the returned answer
TurnPenalty ==
  VerifyAgentResponse(outcome.response.answer, toolResults).confidenceAdjustment

HasWarning(warnings, w) == \E k \in 1..Len(warnings) : warnings[k] = w

\* C18: on the direct path and on the tool path, a returned LLM answer that
\* matches an advice pattern comes with the advice warning and with a
\* confidence strictly below the unpenalized baseline of the turn.
C18_AdviceWarnedAndPenalised ==
  (LlmAnswered /\ MatchesAdvicePattern(outcome.response.answer)) =>
    /\ HasWarning(outcome.response.warnings, AdviceWarning)
    /\ outcome.response.confidence < TurnBaseline

\* C18, the part the code keeps: the warning on both paths, the lower
\* confidence on the tool path
C18_AdviceWarnedPenalisedOnToolPath ==
  (LlmAnswered /\ MatchesAdvicePattern(outcome.response.answer)) =>
    /\ HasWarning(outcome.response.warnings, AdviceWarning)
    /\ Call2Issued => outcome.response.confidence < TurnBaseline

\* C19: a turn that ends without an LLM or configuration error returns the
\* confidence max(0, baseline - penalties), a value between 0 and 1.
C19_ConfidenceIsBaselineLessPenalties ==
  LlmAnswered =>
    /\ outcome.response.confidence = Max(0, TurnBaseline - TurnPenalty)
    /\ outcome.response.confidence >= 0
    /\ outcome.response.confidence <= 10

\* C20: computeConfidence returns 0.1 when tools failed and none succeeded;
\* otherwise 0.4 without holdings; otherwise 0.4 when a tool failed;
\* otherwise 0.7 when price data is missing or errors are present;
\* otherwise 1.0.
C20_ConfidenceDecisionTable ==
  confidenceResult # -1 =>
    LET a == confidenceArgs
        major == a.toolsFailed > 0 /\ a.toolsSucceeded = 0
    IN  /\ major => confidenceResult = 1
        /\ (~major /\ ~a.hasHoldings) => confidenceResult = 4
        /\ (~major /\ a.hasHoldings /\ a.toolsFailed > 0) => confidenceResult = 4
        /\ (a.hasHoldings /\ a.toolsFailed = 0
              /\ (a.isPriceDataMissing \/ a.hasErrors)) => confidenceResult = 7
        /\ (a.hasHoldings /\ a.toolsFailed = 0
              /\ ~a.isPriceDataMissing /\ ~a.hasErrors) => confidenceResult = 10

C20_Witness ==
  /\ confidenceResult = 1
  /\ ~confidenceArgs.hasHoldings
  /\ confidenceArgs.isPriceDataMissing
  /\ confidenceArgs.toolsFailed = MaxCount


\* -------------------------------------------------- verifier, tools, registry
VerifyReturned ==
  callInput.call = "verifyAgentResponse" /\ callPc = "returned"

AdviceTriggered == MatchesAdvicePattern(callInput.answer)

\* the percent sum of the snapshot is more than 1.0 away from 100
SumDeviates ==
  /\ callInput.snapshot # NoResult
  /\ \/ callInput.snapshot.percentSum > 10100
     \/ callInput.snapshot.percentSum < 9900

ValuationTriggered ==
  /\ callInput.snapshot # NoResult
  /\ callInput.snapshot.isPriceDataMissing
  /\ ~MentionsCostBasis(callInput.answer)

WarningsOf(advice, allocation, valuation) ==
  (IF advice THEN <<AdviceWarning>> ELSE <<>>)
    \o (IF allocation THEN <<AllocationWarning>> ELSE <<>>)
    \o (IF valuation THEN <<ValuationWarning>> ELSE <<>>)

PenaltyOf(advice, allocation, valuation) ==
  (IF advice THEN 2 ELSE 0) + (IF allocation THEN 1 ELSE 0)
    + (IF valuation THEN 1 ELSE 0)

\* C21, as stated: verifyAgentResponse returns the penalty 0.2 for an answer
\* that matches an advice pattern (once), plus 0.1 when a snapshot result is
\* present and its percent sum is more than 1.0 away from 100, plus 0.1 when
\* the snapshot reports missing price data and the answer has no cost-basis
\* phrase, with exactly one warning per triggered check, and the last two
\* checks do not run without a snapshot result.
C21_PenaltyPerTriggeredCheck ==
  VerifyReturned =>
    /\ callOutput.confidenceAdjustment =
         PenaltyOf(AdviceTriggered, SumDeviates, ValuationTriggered)
    /\ callOutput.warnings =
         WarningsOf(AdviceTriggered, SumDeviates, ValuationTriggered)

\* C21, amended: the same, the allocation check being triggered only by a
\* snapshot whose allocationBySymbol has at least one row.
C21_PenaltyPerTriggeredCheckOfNonEmpty ==
  VerifyReturned =>
    LET allocation == SumDeviates /\ callInput.snapshot.holdings > 0
    IN  /\ callOutput.confidenceAdjustment =
             PenaltyOf(AdviceTriggered, allocation, ValuationTriggered)
        /\ callOutput.warnings =
             WarningsOf(AdviceTriggered, allocation, ValuationTriggered)

\* two patterns match, the sum is 101.01 and the cost basis goes unmentioned
C21_Witness ==
  /\ VerifyReturned
  /\ callInput.answer = <<"you should buy", "I recommend selling">>
  /\ callInput.snapshot # NoResult
  /\ callInput.snapshot.holdings > 0
  /\ callInput.snapshot.percentSum = 10101
  /\ callInput.snapshot.isPriceDataMissing
  /\ callOutput.confidenceAdjustment = 4
  /\ Len(callOutput.warnings) = 3

\* the results of the snapshot executions of the turn that succeeded, in the
\* order of their execution
SnapshotSuccesses ==
  LET blocks ==
        SelectSeq(toolResultBlocks,
                  LAMBDA b : ~b.is_error /\ b.content.kind = "snapshot")
  IN  [k \in 1..Len(blocks) |-> blocks[k].content]

\* C22: a response assembled from the answer of the LLM carries the valuation
\* method, the date, the total value and the allocations of the last snapshot
\* execution of the turn that succeeded; when none succeeded its valuation
\* method is market and its date is null.
C22_DataOfLastSuccessfulSnapshot ==
  LlmAnswered =>
    LET response == outcome.response
        done == SnapshotSuccesses
    IN  IF done = <<>>
          THEN /\ response.valuationMethod = "market"
               /\ response.asOf = "null"
          ELSE LET last == done[Len(done)]
               IN  /\ response.valuationMethod = last.valuationMethod
                   /\ response.asOf = last.asOf
                   /\ response.totalValue = last.totalValue
                   /\ response.allocationBySymbol =
                        [rows |-> last.holdings, percentSum |-> last.percentSum]

\* the snapshot tool ran twice with different results, the later on cost basis
C22_Witness ==
  /\ LlmAnswered
  /\ Len(SnapshotSuccesses) = 2
  /\ SnapshotSuccesses[1].valuationMethod = "market"
  /\ SnapshotSuccesses[2].valuationMethod = "cost_basis"
  /\ outcome.response.valuationMethod = "cost_basis"
  /\ outcome.response.totalValue = 500

SnapshotReturned == callInput.call = SnapshotName /\ callPc = "returned"

\* C23: in every snapshot the snapshot tool computes, the valuation method
\* is cost_basis exactly when some retained holding (quantity > 0 or
\* value > 0) has a null or zero price or value, isPriceDataMissing is true
\* in exactly those cases, and asOf is null exactly when the method is
\* cost_basis.
C23_CostBasisIffPriceMissing ==
  SnapshotReturned =>
    LET details == callInput.details
        missing ==
          \E k \in 1..Len(details) :
            /\ details[k].quantity > 0 \/ details[k].valueInBaseCurrency > 0
            /\ \/ details[k].marketPrice = Null
               \/ details[k].marketPrice = 0
               \/ details[k].valueInBaseCurrency = Null
               \/ details[k].valueInBaseCurrency = 0
    IN  /\ callOutput.valuationMethod \in {"market", "cost_basis"}
        /\ (callOutput.valuationMethod = "cost_basis") = missing
        /\ callOutput.isPriceDataMissing = missing
        /\ (callOutput.asOf = "null") = (callOutput.valuationMethod = "cost_basis")

\* a holding that is priced but has no value beside a fully priced one
C23_Witness ==
  /\ SnapshotReturned
  /\ Len(callInput.details) = 2
  /\ callInput.details[1] =
       [quantity |-> 1, marketPrice |-> 1, valueInBaseCurrency |-> 0,
        investment |-> 1]
  /\ callInput.details[2].marketPrice = 1
  /\ callInput.details[2].valueInBaseCurrency = 2
  /\ callOutput.valuationMethod = "cost_basis"
  /\ callOutput.asOf = "null"

\* |sum of the percents - 100|, in hundredths of a percent
SumDeviation == Abs(callOutput.percentSum - 10000)

ValuesPositive ==
  \A k \in 1..Len(callOutput.allocationBySymbol) :
    callOutput.allocationBySymbol[k].value > 0

\* C24, as stated: for holdings with positive values the percents of
\* allocationBySymbol sum to within 1.0 of 100 whenever the total value is
\* positive, and every percent is 0 when the total value is 0.
C24_PercentsSumWithinTolerance ==
  (SnapshotReturned /\ ValuesPositive) =>
    /\ callOutput.totalValue > 0 => SumDeviation <= 100
    /\ callOutput.totalValue = 0 =>
         \A k \in 1..Len(callOutput.allocationBySymbol) :
           callOutput.allocationBySymbol[k].percent = 0

\* C24, amended: the sum of the percents is within 0.005 per holding of 100
\* whenever the total value is positive, hence within 1.0 of 100 for up to
\* 200 holdings, and every percent is 0 when the total value is 0.
C24_PercentsSumWithinHalfCentPerHolding ==
  SnapshotReturned =>
    /\ callOutput.totalValue > 0 =>
         /\ 2 * SumDeviation <= callOutput.holdings
         /\ callOutput.holdings <= 200 => SumDeviation <= 100
    /\ callOutput.totalValue = 0 =>
         \A k \in 1..Len(callOutput.allocationBySymbol) :
           callOutput.allocationBySymbol[k].percent = 0

\* 200 holdings of 0.50 each, and before them 33.33 beside 66.67
C24_Witness ==
  /\ SnapshotReturned
  /\ ValuesPositive
  /\ callOutput.holdings = 200
  /\ callOutput.totalValue = 200
  /\ callOutput.allocationBySymbol[1].percent = 50
  /\ callOutput.percentSum = 10000

SimulateReturned == callInput.call = SimulateName /\ callPc = "returned"

\* the locals of the loop as they stand before the change at place k
BeforeChange(k) ==
  LET valueMap == ValueMapOf(callInput.details)
      values == [i \in 1..Len(valueMap) |-> valueMap[i].value]
  IN  ApplyChanges([valueMap |-> valueMap,
                    newTotal |-> SumBetween(values, 1, Len(values)),
                    notes |-> <<>>],
                   SubSeq(callInput.changes, 1, k - 1))

\* the change at place k sells more than the symbol is tracked at
Oversells(k) ==
  /\ callInput.changes[k].type = "sell"
  /\ callInput.changes[k].amount >
       MapGet(BeforeChange(k).valueMap, callInput.changes[k].symbol)

\* C25: a sell of more than the current tracked value of its symbol sets the
\* value of the symbol to exactly 0, appends a warning note, does not fail,
\* and takes the value the symbol had, not the amount asked for, off the
\* total.
C25_OversellClampsToZero ==
  \A k \in 1..MaxChanges :
    (SimulateReturned /\ k = Len(callInput.changes) /\ Oversells(k)) =>
      LET before == BeforeChange(k)
          change == callInput.changes[k]
          current == MapGet(before.valueMap, change.symbol)
      IN  /\ callOutput.kind = "simulation"
          /\ callOutput.newTotalValue = before.newTotal - current
          /\ Len(callOutput.notes) = Len(before.notes) + 1
          /\ callOutput.notes[Len(callOutput.notes)] =
               [note |-> "clamped", change |-> change, currentValue |-> current]
          /\ \A r \in 1..Len(callOutput.newAllocationBySymbol) :
               callOutput.newAllocationBySymbol[r].key # change.symbol
          /\ MapGet(BeforeChange(k + 1).valueMap, change.symbol) = 0

\* a symbol held at 2 is sold for 1 and then for 3: the second sell exceeds
\* the 1 that is left
C25_Witness ==
  /\ SimulateReturned
  /\ Len(callInput.changes) = 2
  /\ callInput.changes[1] = [type |-> "sell", symbol |-> 1, amount |-> 1]
  /\ callInput.changes[2] = [type |-> "sell", symbol |-> 1, amount |-> 3]
  /\ Len(callInput.details) = 2
  /\ callInput.details[1].valueInBaseCurrency = 2
  /\ callInput.details[2].valueInBaseCurrency = 2
  /\ callOutput.originalTotalValue = 4
  /\ callOutput.newTotalValue = 2
  /\ Len(callOutput.notes) = 1

\* the changes folded from the left: the fold of all but the last change,
\* then the last change
RECURSIVE FoldOfChanges(_, _)
FoldOfChanges(start, changes) ==
  IF changes = <<>> THEN start
  ELSE ApplyChange(FoldOfChanges(start, SubSeq(changes, 1, Len(changes) - 1)),
                   changes[Len(changes)])

\* C26: the simulation applies the changes one by one in input order, so
\* that its totals, notes and allocation rows are those of the left-to-right
\* fold of the change list, and newAllocationBySymbol is sorted in
\* descending order of percent.
C26_LeftFoldSortedDescending ==
  SimulateReturned =>
    LET end == FoldOfChanges(BeforeChange(1), callInput.changes)
        rows == callOutput.newAllocationBySymbol
        positive == SelectSeq(end.valueMap, LAMBDA e : e.value > 0)
    IN  /\ callOutput.newTotalValue = end.newTotal
        /\ callOutput.notes = end.notes
        /\ Len(rows) = Len(positive)
        /\ {rows[r] : r \in 1..Len(rows)} =
             {[key |-> positive[i].symbol, value |-> positive[i].value,
               percent |-> RoundedPercent(positive[i].value, end.newTotal)] :
                i \in 1..Len(positive)}
        /\ \A i, j \in 1..Len(rows) :
             i < j => rows[i].percent >= rows[j].percent

\* an oversell before a buy of the same symbol, where the order decides, and
\* a result whose rows had to be reordered
C26_Witness ==
  /\ SimulateReturned
  /\ callInput.changes =
       <<[type |-> "sell", symbol |-> 1, amount |-> 3],
         [type |-> "buy", symbol |-> 1, amount |-> 1]>>
  /\ Len(callInput.details) = 2
  /\ callInput.details[1].valueInBaseCurrency = 2
  /\ callInput.details[2].valueInBaseCurrency = 2
  /\ callOutput.newTotalValue = 3
  /\ Len(callOutput.newAllocationBySymbol) = 2
  /\ callOutput.newAllocationBySymbol[1].key = 2
  /\ callOutput.newAllocationBySymbol[1].percent = 6667
  /\ callOutput.newAllocationBySymbol[2].key = 1

\* getPerformance resolved and execute() returned
PerformanceReturned ==
  /\ callInput.call = PerformanceName
  /\ callPc = "returned"
  /\ "result" \in DOMAIN callInput

\* the places of the chart the time series takes, where it is made of
\* points of the chart
IsSubsequence(series, chart) ==
  /\ \A k \in 1..Len(series) : series[k] \in 1..Len(chart)
  /\ \A i, j \in 1..Len(series) : i < j => series[i] < series[j]

\* C27: for every chart length the time series of getPerformance has at
\* most 20 points, is an order-preserving subsequence of the chart and ends
\* with the last point of the chart; a chart of 20 points or fewer comes
\* back unchanged.
C27_AtMostTwentyPointsEndingWithLast ==
  PerformanceReturned =>
    LET chart == callInput.result.chart
        series == callOutput.timeSeries
    IN  /\ Len(series) <= 20
        /\ IsSubsequence(series, chart)
        /\ chart # <<>> => series # <<>> /\ series[Len(series)] = chart[Len(chart)]
        /\ Len(chart) <= 20 => series = chart

\* what does hold of the sampling: the same with a bound of 21 points
C27_AtMostTwentyOnePointsEndingWithLast ==
  PerformanceReturned =>
    LET chart == callInput.result.chart
        series == callOutput.timeSeries
    IN  /\ Len(series) <= 21
        /\ IsSubsequence(series, chart)
        /\ chart # <<>> => series # <<>> /\ series[Len(series)] = chart[Len(chart)]
        /\ Len(chart) <= 20 => series = chart

\* getPerformance rejected and execute() settled
PerformanceFailed ==
  /\ callInput.call = PerformanceName
  /\ callPc \in {"returned", "raised"}
  /\ "failure" \in DOMAIN callInput

\* C28: when getPerformance fails, execute() of the performance tool does
\* not raise: it returns a result with a null totalReturnPercent, an empty
\* time series and a reasonIfUnavailable that is not null.
C28_ProviderFailureGivesDegradedResult ==
  PerformanceFailed =>
    /\ callPc = "returned"
    /\ callOutput.kind = "performance"
    /\ callOutput.totalReturnPercent = Null
    /\ callOutput.timeSeries = <<>>
    /\ callOutput.reasonIfUnavailable # [reason |-> "null"]

C28_Witness ==
  /\ PerformanceFailed
  /\ providerCalls = <<"getPerformance">>
  /\ callOutput.reasonIfUnavailable.reason = "unavailable"
  /\ callOutput.valuationMethod = "cost_basis"

\* C28, the orchestrator's part: an execute() that resolves, whatever its
\* result, is recorded as a successful trace row and a failed one is not.
C28_ResolvedExecutionIsSuccessfulRow ==
  /\ Len(toolResultBlocks) = Len(toolTrace)
  /\ \A k \in 1..Len(toolResultBlocks) :
       toolTrace[k].ok = ~toolResultBlocks[k].is_error

\* C29: the only operations of the portfolio-data provider that a tool
\* execution invokes are the reads getDetails and getPerformance, the
\* simulation included.
C29_OnlyProviderReads ==
  \A k \in 1..Len(providerCalls) :
    providerCalls[k] \in {"getDetails", "getPerformance"}

\* a simulation that changed the total it reports has made one read
C29_Witness ==
  /\ SimulateReturned
  /\ callInput.changes # <<>>
  /\ callOutput.newTotalValue # callOutput.originalTotalValue
  /\ providerCalls = <<"getDetails">>

\* C29, the orchestrator's part: no step of a chat turn invokes the provider
\* itself.
C29_TurnStepsInvokeNoProvider == [][providerCalls' = providerCalls]_vars

\* C30: after any sequence of register calls the views of the registry
\* agree for every name: getExecutor returns an executor exactly when the
\* tool is present and enabled, exactly when isEnabled is true, exactly when
\* the name is in getToolNames(), exactly when its definition is in
\* getDefinitions().
C30_RegistryViewsAgree ==
  \A name \in {SnapshotName, PerformanceName, SimulateName, MarketPricesName,
                "nonExistentTool"} :
    LET presentAndEnabled ==
          \E k \in 1..Len(toolRegistry) :
            toolRegistry[k].definition.name = name /\ toolRegistry[k].enabled
        names == GetToolNames(toolRegistry)
        definitions == GetDefinitions(toolRegistry)
    IN  /\ (GetExecutor(toolRegistry, name) # NoExecutor) = presentAndEnabled
        /\ IsEnabled(toolRegistry, name) = presentAndEnabled
        /\ (\E k \in 1..Len(names) : names[k] = name) = presentAndEnabled
        /\ (\E k \in 1..Len(definitions) : definitions[k].name = name)
             = presentAndEnabled

\* a registry with a disabled tool registered before an enabled one
C30_Witness ==
  /\ Len(toolRegistry) = 3
  /\ toolRegistry[1].definition.name = MarketPricesName
  /\ ~toolRegistry[1].enabled
  /\ toolRegistry[2].definition.name = SnapshotName
  /\ toolRegistry[2].enabled
  /\ toolRegistry[3].definition.name = SimulateName
  /\ ~toolRegistry[3].enabled
  /\ GetToolNames(toolRegistry) = <<SnapshotName>>
  /\ GetExecutor(toolRegistry, SimulateName) = NoExecutor

\* the names of the registry's entries, in the order of the Map
RegisteredNames(tools) == [k \in 1..Len(tools) |-> tools[k].definition.name]

\* the definitions of the enabled entries and the names of the enabled
\* entries, read off the registry entry by entry
EnabledInOrder(tools) == SelectSeq(tools, LAMBDA t : t.enabled)

\* C31: a register call under a name that is already registered replaces the
\* earlier entry where it stands (the registry then holds the definition,
\* the executor and the enabled flag of the call, and every name once); a
\* register call under a new name adds the entry after the others; and
\* getDefinitions() and getToolNames() list the enabled entries in that
\* order.
C31_LastRegistrationWinsInOrder ==
  [][\E tool \in RegisteredTools :
       LET name == tool.definition.name
           before == RegisteredNames(toolRegistry)
           after == RegisteredNames(toolRegistry')
           enabledAfter == EnabledInOrder(toolRegistry')
       IN  /\ after = IF \E k \in 1..Len(before) : before[k] = name
                        THEN before
                        ELSE Append(before, name)
           /\ \A j, k \in 1..Len(after) : after[j] = after[k] => j = k
           /\ \A k \in 1..Len(after) :
                toolRegistry'[k] = IF after[k] = name THEN tool
                                                       ELSE toolRegistry[k]
           /\ GetExecutor(toolRegistry', name)
                = IF tool.enabled THEN tool.executor ELSE NoExecutor
           /\ IsEnabled(toolRegistry', name) = tool.enabled
           /\ GetDefinitions(toolRegistry')
                = [k \in 1..Len(enabledAfter) |-> enabledAfter[k].definition]
           /\ GetToolNames(toolRegistry')
                = [k \in 1..Len(enabledAfter) |->
                     enabledAfter[k].definition.name]
           /\ \A k \in 1..Len(enabledAfter) :
                enabledAfter[k].definition.name = name
                  => GetDefinitions(toolRegistry')[k] = tool.definition
    ]_vars

\* a disabled first registration was replaced by an enabled one with
\* another definition and another executor, and it is listed before the
\* tool registered between the two
C31_Witness ==
  /\ Len(toolRegistry) = 2
  /\ toolRegistry[1] =
       [definition |-> [name |-> SnapshotName, description |-> "other"],
        executor |-> [tool |-> SnapshotName, instance |-> "other"],
        enabled |-> TRUE]
  /\ toolRegistry[2].definition.name = SimulateName
  /\ toolRegistry[2].enabled
  /\ GetToolNames(toolRegistry) = <<SnapshotName, SimulateName>>
  /\ GetExecutor(toolRegistry, SnapshotName)
       = [tool |-> SnapshotName, instance |-> "other"]

\* C32, the flag: the market prices tool is enabled exactly when the
\* external-market-data flag is set, and without the flag no LLM call is
\* offered its definition and no request for it reaches execute.
C32_MarketPricesOnlyWithFlag ==
  /\ IsEnabled(toolRegistry, MarketPricesName) = enableExternalMarketData
  /\ ~enableExternalMarketData =>
       /\ \A c \in 1..Len(llmCalls) : \A k \in 1..Len(llmCalls[c].tools) :
            llmCalls[c].tools[k].name # MarketPricesName
       /\ \A k \in 1..Len(executed) :
            toolUseBlocks[executed[k]].name # MarketPricesName

\* without the flag a request for market prices got the row of an unknown
\* tool, and call #2 was issued without the definition
C32_FlagWitness ==
  /\ ~enableExternalMarketData
  /\ Call2Issued
  /\ Len(toolTrace) = 1
  /\ toolTrace[1].tool = MarketPricesName
  /\ ~toolTrace[1].ok
  /\ executed = <<>>

\* C32: a call of the market prices tool never fails: it returns one row
\* per requested symbol, each with source "unavailable".
C32_MarketPricesNeverFails ==
  callInput.call = MarketPricesName =>
    /\ callPc = "returned"
    /\ callOutput.kind = "marketPrices"
    /\ Len(callOutput.rows) = Len(callInput.symbols.items)
    /\ \A k \in 1..Len(callOutput.rows) :
         /\ callOutput.rows[k].symbol = callInput.symbols.items[k]
         /\ callOutput.rows[k].source = "unavailable"

\* C32, for the inputs that hold an array of symbols or no symbols at all:
\* the call returns one placeholder row per symbol.
C32_ArrayOfSymbolsGivesPlaceholderRows ==
  (callInput.call = MarketPricesName /\ callInput.symbols.type # "string") =>
    /\ callPc = "returned"
    /\ callOutput.kind = "marketPrices"
    /\ Len(callOutput.rows) = Len(callInput.symbols.items)
    /\ \A k \in 1..Len(callOutput.rows) :
         /\ callOutput.rows[k].symbol = callInput.symbols.items[k]
         /\ callOutput.rows[k].price = 0
         /\ callOutput.rows[k].source = "unavailable"

\* how often the prefix stands in a header value
PrefixCount(value) ==
  Cardinality({k \in 1..Len(value) : value[k] = "Bearer "})

\* C33: the request a proxy method builds carries the authorization header
\* 'Bearer ' followed by the caller's token without its prefix, so the
\* prefix stands in it exactly once whether the caller's token carried it
\* or not; normalising the header again leaves it as it is; and the user
\* identity header is the caller's user id.
C33_BearerPrefixExactlyOnce ==
  callOutput.kind = "request" =>
    /\ callOutput.headers.authorization
         = <<"Bearer ">> \o RawToken(callInput.bearerToken)
    /\ ~HasBearerPrefix(RawToken(callInput.bearerToken)) =>
         PrefixCount(callOutput.headers.authorization) = 1
    /\ BearerToken(callOutput.headers.authorization)
         = callOutput.headers.authorization
    /\ callOutput.headers.xGhostfolioUserId = callInput.ghostfolioUserId

\* a request built for a controller call whose token came with the prefix
C33_Witness ==
  /\ callOutput.kind = "request"
  /\ callInput.call = "proxyStreamToAgent"
  /\ callInput.bearerToken = <<"Bearer ", "abc">>
  /\ callOutput.headers.authorization = <<"Bearer ", "abc">>
  /\ callOutput.headers.xGhostfolioUserId = "user-123"

\* C34: the tool-result turn sent with LLM call #2 holds one block per
\* tool_use block of call #1, in the order of the requests; the i-th block
\* echoes the id of the i-th request and is flagged as an error exactly when
\* the i-th trace row has ok = false.
C34_OneResultBlockPerRequestInOrder ==
  \A c \in 1..Len(llmCalls) :
    llmCalls[c].call = 2 =>
      LET requests == ToolUseBlocks(llmCalls[c].assistantTurn)
          turn == llmCalls[c].userTurn
      IN  /\ llmCalls[c].assistantTurn = call1Content
          /\ Len(turn) = Len(requests)
          /\ Len(toolTrace) = Len(requests)
          /\ \A i \in 1..Len(turn) :
               /\ turn[i].tool_use_id = requests[i].id
               /\ toolTrace[i].tool = requests[i].name
               /\ turn[i].is_error = ~toolTrace[i].ok

\* call #2 was sent after a failed first request and a successful second
C34_Witness ==
  /\ Call2Issued
  /\ Len(toolTrace) = 2
  /\ ~toolTrace[1].ok
  /\ toolTrace[2].ok
  /\ llmCalls[2].userTurn[1].is_error
  /\ ~llmCalls[2].userTurn[2].is_error
  /\ llmCalls[2].userTurn[2].tool_use_id = 2

\* the events of a frame that stands whole in a body
EventsOfFrame(frame) ==
  IF frame = DataPrefix \o <<"1">> \o Separator THEN <<[value |-> <<"1">>]>>
  ELSE IF frame = DataPrefix \o <<"2">> \o Separator
    THEN <<[value |-> <<"2">>]>>
  ELSE IF frame = <<":", "\n">> \o DataPrefix \o <<" ", "1", "2", " ">>
                    \o Separator
    THEN <<[value |-> <<"1", "2">>]>>
  ELSE <<>>

\* C35: whatever chunks the body was read in, the events yielded so far and
\* the retained tail are those of one read of the concatenation of the
\* chunks; and once a body made of whole frames has been read, the events
\* are those of its frames, each once and in order.
C35_EventsIndependentOfChunking ==
  (callOutput.kind = "events") =>
    LET soFar == SubSeq(callInput.stream, 1, callOutput.read)
        atOnce == DrainBuffer(soFar, <<>>)
    IN  /\ callOutput.events = atOnce.events
        /\ callOutput.buffer = atOnce.buffer
        /\ callOutput.read = Len(callInput.stream) =>
             \E frames \in UNION {[1..n -> StreamFrames] :
                                    n \in 0..MaxStreamFrames} :
               /\ Concat(frames) = callInput.stream
               /\ callOutput.events
                    = Concat([k \in 1..Len(frames) |-> EventsOfFrame(frames[k])])

\* a body of two events was read up to the place between the two line ends
\* that close the second event: the first event was yielded, and what came
\* of the second is retained
C35_Witness ==
  /\ callOutput.kind = "events"
  /\ callInput.stream = DataPrefix \o <<"1">> \o Separator
                          \o DataPrefix \o <<"2">> \o Separator
  /\ callOutput.read = 15
  /\ callOutput.buffer = DataPrefix \o <<"2", "\n">>
  /\ callOutput.events = <<[value |-> <<"1">>]>>

\* the accumulators of a call that ran alone, from what the LLM and the
\* executors answered it with: the requests of call #1 are gone through in
\* order, a request without an executor fails, and every other request takes
\* the next settlement of the call's own executions
RECURSIVE ReplayFrom(_, _, _, _)
ReplayFrom(blocks, i, settled, acc) ==
  IF i > Len(blocks) THEN acc
  ELSE IF UnknownOrDisabled(blocks[i].name)
    THEN ReplayFrom(blocks, i + 1, settled,
                    [acc EXCEPT
                       !.toolsFailed = @ + 1,
                       !.toolTrace =
                         Append(@, [tool |-> blocks[i].name, ok |-> FALSE,
                                    error |->
                                      UnknownToolError(blocks[i].name)])])
  ELSE IF settled = <<>> THEN acc
  ELSE ReplayFrom(blocks, i + 1, Tail(settled),
                  [acc EXCEPT
                     !.toolsSucceeded = IF Head(settled).ok THEN @ + 1 ELSE @,
                     !.toolsFailed = IF Head(settled).ok THEN @ ELSE @ + 1,
                     !.toolResults =
                       IF Head(settled).ok
                         THEN [@ EXCEPT ![blocks[i].name] = Head(settled).result]
                         ELSE @,
                     !.toolTrace =
                       Append(@, [tool |-> blocks[i].name,
                                  ok |-> Head(settled).ok,
                                  error |-> Head(settled).error])])

Replay(own) ==
  ReplayFrom(ToolUseBlocks(own.call1), 1, own.settled,
             [toolTrace |-> <<>>,
              toolResults |-> [n \in RequestNames |-> NoResult],
              toolsSucceeded |-> 0, toolsFailed |-> 0])

\* C36: under every interleaving of the calls of chat() on one service, the
\* toolTrace, the tool results and the counters of a call are those of its
\* own tool invocations, the response it returns carries that trace and the
\* confidence computed from those counters and results, and the registry
\* stays as the constructor left it.
C36_TurnsShareNoState ==
  /\ toolRegistry = ConstructRegistry(enableExternalMarketData)
  /\ \A c \in 1..MaxChats :
       LET locals == chats[c]
           alone == Replay(chats[c].own)
       IN  /\ chats[c].own.phase \in {"planned", "answered"} =>
                /\ locals.toolTrace = alone.toolTrace
                /\ locals.toolResults = alone.toolResults
                /\ locals.toolsSucceeded = alone.toolsSucceeded
                /\ locals.toolsFailed = alone.toolsFailed
           /\ chats[c].own.phase = "answered" =>
                /\ locals.pc = "done"
                /\ locals.outcome =
                     Returned(FinalResponse(chats[c].own.call2,
                                            alone.toolTrace, alone.toolResults,
                                            alone.toolsSucceeded,
                                            alone.toolsFailed))
           /\ chats[c].own.phase = "failed" =>
                /\ locals.pc = "done"
                /\ locals.outcome.response.toolTrace = alone.toolTrace
           /\ chats[c].own.phase \in {"none", "begun"} =>
                /\ locals.toolTrace = <<>>
                /\ locals.toolsSucceeded = 0
                /\ locals.toolsFailed = 0

\* two calls are in progress at once: the first awaits its second snapshot
\* execution after a successful one, the second awaits LLM call #2 after a
\* rejected execution and a request without an executor
C36_Witness ==
  /\ chats[1].pc = "awaitTool"
  /\ chats[1].idx = 2
  /\ chats[1].toolsSucceeded = 1
  /\ chats[1].toolsFailed = 0
  /\ chats[1].toolResults[SnapshotName] # NoResult
  /\ chats[2].pc = "awaitCall2"
  /\ chats[2].toolsSucceeded = 0
  /\ chats[2].toolsFailed = 2
  /\ chats[2].toolResults[SnapshotName] = NoResult
  /\ Len(chats[2].toolTrace) = 2

\* the requests whose chat frame the page has sent and whose turn it still
\* has to take for in flight: it has received neither done nor error of the
\* turn and has sent no cancel for it
TurnsInFlightForPage ==
  { r \in 1..MaxSends :
      /\ \E k \in 1..Len(page.sent) :
           page.sent[k].type = "chat" /\ page.sent[k].request = r
      /\ ~\E event \in pageLog.received :
            event.turn = r /\ event.type \in {"done", "error"}
      /\ ~\E k \in 1..Len(page.sent) :
            page.sent[k].type = "cancel" /\ page.sent[k].request = r }

\* C37: the page sends no chat frame while an earlier turn of the socket is
\* in flight, so at most one turn is in flight for the page at any time.
C37_NoChatWhileEarlierTurnInFlight == Cardinality(TurnsInFlightForPage) <= 1

\* C38: every event a handler of the page handled belongs to the turn of the
\* request the handler was made for.
C38_HandlerGetsOnlyItsOwnTurn ==
  \A h \in pageLog.handled : h.turn = h.request

\* C39: a simulation without changes reports, as originalTotalValue and as
\* newTotalValue, the totalValue the snapshot tool reports for the same
\* holdings, and the same valuationMethod.
C39_EmptySimulationAgreesWithSnapshot ==
  (SimulateReturned /\ callInput.changes = <<>>) =>
    LET snapshot == MapToSnapshot(callInput.details)
    IN  /\ callOutput.originalTotalValue = snapshot.totalValue
        /\ callOutput.newTotalValue = snapshot.totalValue
        /\ callOutput.valuationMethod = snapshot.valuationMethod

\* C39, the part that holds: without changes the simulation reports its
\* original total as the new total, and on holdings that all have a market
\* price and a value above 0 the total and the valuation method are those of
\* the snapshot.
C39_AgreesOnPricedHoldings ==
  (SimulateReturned /\ callInput.changes = <<>>) =>
    /\ callOutput.newTotalValue = callOutput.originalTotalValue
    /\ (\A k \in 1..Len(callInput.details) :
          /\ callInput.details[k].marketPrice \notin {0, Null}
          /\ callInput.details[k].valueInBaseCurrency \notin {0, Null}) =>
         /\ callOutput.originalTotalValue
              = MapToSnapshot(callInput.details).totalValue
         /\ callOutput.valuationMethod
              = MapToSnapshot(callInput.details).valuationMethod

\* the LLM requested tools in the turn, every one of them succeeded and no
\* result of the turn reports missing price data
AllRequestedSucceeded ==
  /\ LlmAnswered
  /\ toolUseBlocks # <<>>
  /\ toolsFailed = 0
  /\ toolsSucceeded = Len(toolUseBlocks)
  /\ \A k \in 1..Len(SnapshotSuccesses) :
       ~SnapshotSuccesses[k].isPriceDataMissing

\* C40: in a turn where every requested tool succeeded and no result reports
\* missing price data or errors, the confidence before the penalties of the
\* verification is 1.0 whichever tools were requested; it is 0.4 only when a
\* snapshot result of the turn reports zero holdings.
C40_FullConfidenceWhicheverToolsSucceed ==
  AllRequestedSucceeded =>
    LET base == BaseConfidence(toolResults, toolsSucceeded, toolsFailed)
    IN  \/ base = 10
        \/ /\ base = 4
           /\ \E k \in 1..Len(SnapshotSuccesses) :
                SnapshotSuccesses[k].holdings = 0

\* C40, the part that holds: when the snapshot tool is among the tools that
\* succeeded, the confidence before the penalties is 1.0 if the last snapshot
\* result reports holdings and 0.4 if it reports none.
C40_FullConfidenceWithSnapshot ==
  (AllRequestedSucceeded /\ SnapshotSuccesses # <<>>) =>
    BaseConfidence(toolResults, toolsSucceeded, toolsFailed) =
      IF SnapshotSuccesses[Len(SnapshotSuccesses)].holdings > 0
        THEN 10 ELSE 4

====
